---- MODULE Spec2Model ----
(***************************************************************************)
(* Resilience and safety layer of the conversational agent backend:        *)
(*   - CircuitBreaker            (apps/api-python/retry.py)                *)
(*   - with_retry                (apps/api-python/retry.py)                *)
(*   - AbuseDetector             (apps/api-python/guardrails.py)           *)
(*   - trim_conversation_history (apps/api-python/conversation.py)         *)
(*   - sanitize_input, check_content_safety, detect_prompt_injection,      *)
(*     validate_tool_call        (apps/api-python/guardrails.py)           *)
(*   - _run_one_tool, call_openai_with_retry (api/index.py)                *)
(* Each subsystem has its own next-state relation and specification over   *)
(* the shared variables; the variables of the other subsystems stay at     *)
(* their constructed values.                                               *)
(***************************************************************************)
EXTENDS Integers, Sequences, FiniteSets, TLC

VARIABLES
    now,        \* time.time(), in whole clock units
    cb,         \* the CircuitBreaker object's fields
    cbLast,     \* the last CircuitBreaker call: operation, result, fields before it
    cbConsec,   \* history: record_failure calls since the last record_success / closing
    cbGranted,  \* history: allow_request calls answered True in the current half-open episode
    rt,         \* one call of a function wrapped by with_retry
    user_data,  \* AbuseDetector._user_data: caller id -> record
    adLast,     \* the last check_and_record call: arguments, result, record before and after cleanup
    adLog,      \* history: the check_and_record calls made since each caller's record was created
    fcall,      \* one call of a pure function: its name, arguments and, once evaluated, result
    reqs,       \* concurrent requests at the abuse check: where each one is, what it carries
    served,     \* history: the check_and_record calls of the concurrent requests, in the order they ran
    calls       \* concurrent calls of call_openai_with_retry: where each one is

vars == <<now, cb, cbLast, cbConsec, cbGranted, rt, user_data, adLast, adLog, fcall,
          reqs, served, calls>>
breakerVars == <<cb, cbLast, cbConsec, cbGranted>>
abuseVars == <<user_data, adLast, adLog>>
concVars == <<reqs, served, calls>>
extraVars == <<fcall, concVars>>

(***************************************************************************)
(* Parameters of the model.  The constructor arguments of CircuitBreaker   *)
(* are instantiated with small values, time is counted in clock units.     *)
(***************************************************************************)
failure_threshold == 3
recovery_timeout == 2
half_open_max_calls == 2
MaxTime == 5
MaxFailureCount == 5
MaxAttempts == 4
max_delay == 3
base_delay == 1
window_seconds == 2
duplicate_threshold == 3
injection_threshold == 3
MaxCalls == 5
MaxAbuseTime == 3
backoff_factor == 2
MaxMessages == 4
MaxCeiling == 24
MaxPreserveRecent == 2
MaxTextLen == 6
MaxTopicWords == 4
MaxWords == 2
MaxConcurrentCalls == 4
openai_max_attempts == 3
MaxRequests == 4
MaxToolCalls == 2
newline_run == 5
newline_keep == 3
space_run == 10
space_keep == 3
tab_run == 5
tab_keep == 2

CLOSED == "closed"
OPEN == "open"
HALF_OPEN == "half_open"

(***************************************************************************)
(* CircuitBreaker                                                          *)
(***************************************************************************)

\* CircuitBreaker.__init__
CircuitBreakerInit ==
    [ state             |-> CLOSED,
      failure_count     |-> 0,
      success_count     |-> 0,
      last_failure_time |-> 0,
      half_open_calls   |-> 0 ]

\* Variant of the `state` property that forgets to reset the trial counter.
StateProperty_keepTrials(b, t) ==
    IF b.state = OPEN /\ t - b.last_failure_time >= recovery_timeout
    THEN [b EXCEPT !.state = HALF_OPEN]
    ELSE b

\* The `state` property read at time t: an OPEN breaker whose recovery
\* timeout has elapsed becomes HALF_OPEN with the trial counter reset.
StateProperty(b, t) ==
    IF b.state = OPEN /\ t - b.last_failure_time >= recovery_timeout
    THEN [b EXCEPT !.state = HALF_OPEN, !.half_open_calls = 0]
    ELSE b

\* Variant of allow_request() that grants a trial one call beyond the limit.
allow_request_oneMore(b, t) ==
    LET b1 == StateProperty(b, t) IN
    IF b1.state = CLOSED THEN [b |-> b1, ret |-> TRUE]
    ELSE IF b1.state = OPEN THEN [b |-> b1, ret |-> FALSE]
    ELSE IF b1.half_open_calls <= half_open_max_calls
         THEN [b |-> [b1 EXCEPT !.half_open_calls = @ + 1], ret |-> TRUE]
         ELSE [b |-> b1, ret |-> FALSE]

\* allow_request() at time t: the breaker afterwards and the value returned.
allow_request(b, t) ==
    LET b1 == StateProperty(b, t) IN
    IF b1.state = CLOSED THEN [b |-> b1, ret |-> TRUE]
    ELSE IF b1.state = OPEN THEN [b |-> b1, ret |-> FALSE]
    ELSE IF b1.half_open_calls < half_open_max_calls
         THEN [b |-> [b1 EXCEPT !.half_open_calls = @ + 1], ret |-> TRUE]
         ELSE [b |-> b1, ret |-> FALSE]

\* Variant of record_success() that keeps the failure count while CLOSED.
record_success_keepFailures(b) ==
    IF b.state = HALF_OPEN
    THEN LET b1 == [b EXCEPT !.success_count = @ + 1] IN
         IF b1.success_count >= half_open_max_calls
         THEN [b1 EXCEPT !.state = CLOSED, !.failure_count = 0, !.success_count = 0]
         ELSE b1
    ELSE b

\* Variant of record_success() that closes one success late.
record_success_lateClose(b) ==
    IF b.state = HALF_OPEN
    THEN LET b1 == [b EXCEPT !.success_count = @ + 1] IN
         IF b1.success_count > half_open_max_calls
         THEN [b1 EXCEPT !.state = CLOSED, !.failure_count = 0, !.success_count = 0]
         ELSE b1
    ELSE IF b.state = CLOSED
         THEN [b EXCEPT !.failure_count = 0]
         ELSE b

\* record_success()
record_success(b) ==
    IF b.state = HALF_OPEN
    THEN LET b1 == [b EXCEPT !.success_count = @ + 1] IN
         IF b1.success_count >= half_open_max_calls
         THEN [b1 EXCEPT !.state = CLOSED, !.failure_count = 0, !.success_count = 0]
         ELSE b1
    ELSE IF b.state = CLOSED
         THEN [b EXCEPT !.failure_count = 0]
         ELSE b

\* Variant of record_failure() that keeps the success counter in HALF_OPEN.
record_failure_keepSuccesses(b, t) ==
    LET b1 == [b EXCEPT !.failure_count = @ + 1, !.last_failure_time = t] IN
    IF b1.state = HALF_OPEN
    THEN [b1 EXCEPT !.state = OPEN]
    ELSE IF b1.state = CLOSED /\ b1.failure_count >= failure_threshold
         THEN [b1 EXCEPT !.state = OPEN]
         ELSE b1

\* record_failure() at time t
record_failure(b, t) ==
    LET b1 == [b EXCEPT !.failure_count = @ + 1, !.last_failure_time = t] IN
    IF b1.state = HALF_OPEN
    THEN [b1 EXCEPT !.state = OPEN, !.success_count = 0]
    ELSE IF b1.state = CLOSED /\ b1.failure_count >= failure_threshold
         THEN [b1 EXCEPT !.state = OPEN]
         ELSE b1

\* reset()
reset(b) ==
    [b EXCEPT !.state = CLOSED, !.failure_count = 0,
              !.success_count = 0, !.half_open_calls = 0]

\* History of the trials granted in the current half-open episode: it starts
\* at 0 whenever a call takes the breaker from OPEN to HALF_OPEN and counts
\* the allow_request calls answered True while HALF_OPEN.
GrantedAfter(before, after, ret, granted) ==
    LET base == IF before.state = OPEN /\ after.state = HALF_OPEN THEN 0 ELSE granted
    IN  IF after.state = HALF_OPEN /\ ret = TRUE THEN base + 1 ELSE base

(***************************************************************************)
(* with_retry: one call of the wrapper around a fallible operation.        *)
(* An outcome of the operation is a record [kind, id]: kind "ok" is a      *)
(* returned value, "eligible" an exception of a type in `exceptions`,      *)
(* "other" an exception of any other type; id is the number of the         *)
(* invocation that produced it, so that two outcomes are told apart.       *)
(***************************************************************************)

NoError == [kind |-> "none", id |-> 0]

\* The wrapper before it is called: decorator arguments max_attempts, jitter
\* and on_retry (given or None), and the bookkeeping of the run.  Delays are
\* kept in hundredths of a second.
RetryIdle(n, withCallback, withJitter) ==
    [ pc             |-> "idle",
      max_attempts   |-> n,
      has_on_retry   |-> withCallback,
      jitter         |-> withJitter,
      delays         |-> <<>>,
      attempt        |-> 0,
      invocations    |-> 0,
      outcomes       |-> <<>>,
      on_retry_calls |-> <<>>,
      on_retry_threw |-> 0,
      sleeps         |-> 0,
      last_exception |-> NoError,
      result         |-> [kind |-> "none", error |-> NoError, attempts |-> 0] ]

\* Variant of the except clause that catches every exception.
IsRetryable_all(e) == e.kind \in {"eligible", "other"}

\* `except exceptions as e`: the clause catches the eligible types only.
IsRetryable(e) == e.kind = "eligible"

\* raise RetryExhausted(e, attempts)
RetryExhausted(e, attempts) ==
    [kind |-> "RetryExhausted", error |-> e, attempts |-> attempts]

\* Variant of the callback step without the try/except around on_retry.
call_on_retry_unprotected(r, e, throws) ==
    IF r.has_on_retry
    THEN LET r1 == [r EXCEPT !.on_retry_calls =
                        Append(@, [error |-> e, attempt |-> r.attempt, slept |-> r.sleeps]),
                             !.on_retry_threw = IF throws THEN @ + 1 ELSE @]
         IN  IF throws
             THEN [r1 EXCEPT !.pc = "done",
                             !.result = [kind |-> "raise",
                                         error |-> [kind |-> "callback", id |-> r.attempt],
                                         attempts |-> 0]]
             ELSE r1
    ELSE r

\* The callback step: on_retry(e, attempt) when a callback was given; an
\* Exception it raises is swallowed.
call_on_retry(r, e, throws) ==
    IF r.has_on_retry
    THEN [r EXCEPT !.on_retry_calls =
                       Append(@, [error |-> e, attempt |-> r.attempt, slept |-> r.sleeps]),
                   !.on_retry_threw = IF throws THEN @ + 1 ELSE @]
    ELSE r

RECURSIVE Pow(_, _)
Pow(x, k) == IF k = 0 THEN 1 ELSE x * Pow(x, k - 1)

Min(a, b) == IF a <= b THEN a ELSE b

\* The factors 0.75 + random.random() * 0.5 can take, in percent:
\* random.random() is in [0, 1).
JitterPercents == {75, 100, 124}

\* Variant of the delay whose exponent is the attempt number itself.
backoff_delay_nextPower(attempt, withJitter, pct) ==
    Min(base_delay * Pow(backoff_factor, attempt), max_delay)
        * (IF withJitter THEN pct ELSE 100)

\* delay = min(base_delay * backoff_factor ** (attempt - 1), max_delay),
\* times the jitter factor when jitter is on; in hundredths of a second.
backoff_delay(attempt, withJitter, pct) ==
    Min(base_delay * Pow(backoff_factor, attempt - 1), max_delay)
        * (IF withJitter THEN pct ELSE 100)

\* The body of the except clause for a caught exception e: RetryExhausted on
\* the last attempt, else the callback and then the backoff sleep.
handle_caught(r, e, throws, pct) ==
    LET r1 == [r EXCEPT !.last_exception = e] IN
    IF r1.attempt >= r1.max_attempts
    THEN [r1 EXCEPT !.pc = "done", !.result = RetryExhausted(e, r1.attempt)]
    ELSE LET delay == backoff_delay(r1.attempt, r1.jitter, pct)
             r2 == call_on_retry(r1, e, throws)
         IN  IF r2.pc = "done" THEN r2
             ELSE [r2 EXCEPT !.pc = "sleeping", !.sleeps = @ + 1,
                             !.delays = Append(@, delay)]

\* The operation raised e inside the try block.
handle_exception(r, e, throws, pct) ==
    IF IsRetryable(e)
    THEN handle_caught(r, e, throws, pct)
    ELSE [r EXCEPT !.pc = "done",
                   !.result = [kind |-> "raise", error |-> e, attempts |-> 0]]

\* `for attempt in range(1, max_attempts + 1)`: the next iteration invokes
\* the operation, or the loop is over and the final raise is reached.
next_attempt(r) ==
    IF r.attempt + 1 <= r.max_attempts
    THEN [r EXCEPT !.attempt = @ + 1, !.invocations = @ + 1, !.pc = "await_func"]
    ELSE [r EXCEPT !.pc = "done",
                   !.result = RetryExhausted(r.last_exception, r.max_attempts)]

(***************************************************************************)
(* AbuseDetector.  A message is a record [head, tail]: head stands for its *)
(* first 500 characters, tail for the rest, so that two messages with the  *)
(* same head are different messages with the same fingerprint.             *)
(***************************************************************************)

Users == {"u1"}
Messages == {[head |-> 1, tail |-> 0], [head |-> 1, tail |-> 1], [head |-> 2, tail |-> 0]}

DUPLICATE_REASON == "Too many duplicate messages"
INJECTION_REASON == "Too many suspicious requests"
NoReason == "None"

\* AbuseDetector.__init__: no caller has a record.
AbuseDetectorInit == [u \in {} |-> 0]

\* The record created for a caller seen for the first time at time t.
NewUserData(t) == [messages |-> <<>>, injection_count |-> 0, last_cleanup |-> t]

\* message[:500]
Prefix500(m) == m.head

\* hash(...) of a string: equal strings have equal hashes.
hash(p) == p * 31 + 7

\* msg_hash = hash(message[:500])
msg_hash(m) == hash(Prefix500(m))

\* now - ts < window_seconds
IsFresh(entry, t) == t - entry[2] < window_seconds

\* Variant of the cleanup that keeps the injection counter.
cleanup_keepInjections(d, t) ==
    IF t - d.last_cleanup > window_seconds
    THEN [d EXCEPT !.messages = SelectSeq(@, LAMBDA e : IsFresh(e, t)),
                   !.last_cleanup = t]
    ELSE d

\* "Cleanup old data": when more than window_seconds have passed since the
\* last cleanup, drop the stale entries and reset the injection counter.
cleanup(d, t) ==
    IF t - d.last_cleanup > window_seconds
    THEN [d EXCEPT !.messages = SelectSeq(@, LAMBDA e : IsFresh(e, t)),
                   !.injection_count = 0,
                   !.last_cleanup = t]
    ELSE d

\* The number of fresh entries of the record that carry hash h.
duplicate_count(d, h, t) ==
    Cardinality({i \in 1..Len(d.messages) :
                    d.messages[i][1] = h /\ IsFresh(d.messages[i], t)})

\* Variant of the duplicate test that trips one message late.
is_duplicate_abuse_late(count) == count > duplicate_threshold

\* Variant of the duplicate test that counts the message being checked.
is_duplicate_abuse_inclusive(count) == count + 1 >= duplicate_threshold

\* duplicate_count >= self.duplicate_threshold
is_duplicate_abuse(count) == count >= duplicate_threshold

\* Variant of the injection test that trips one attempt late.
is_injection_abuse_late(count) == count > injection_threshold

\* data["injection_count"] >= self.injection_threshold
is_injection_abuse(count) == count >= injection_threshold

\* The record with the caller created when absent.
ensure_user(ud, u, t) ==
    IF u \in DOMAIN ud THEN ud
    ELSE [x \in DOMAIN ud \cup {u} |-> IF x = u THEN NewUserData(t) ELSE ud[x]]

\* Variant of check_and_record that counts the injection attempt before the
\* duplicate test.
check_and_record_countFirst(ud, u, m, had_injection, t) ==
    LET ud1 == ensure_user(ud, u, t)
        d1  == cleanup(ud1[u], t)
        h   == msg_hash(m)
        d2  == IF had_injection THEN [d1 EXCEPT !.injection_count = @ + 1] ELSE d1
    IN  IF is_duplicate_abuse(duplicate_count(d1, h, t))
        THEN [ud |-> [ud1 EXCEPT ![u] = d2], mid |-> d1, ret |-> <<TRUE, DUPLICATE_REASON>>]
        ELSE IF had_injection /\ is_injection_abuse(d2.injection_count)
             THEN [ud |-> [ud1 EXCEPT ![u] = d2], mid |-> d1,
                   ret |-> <<TRUE, INJECTION_REASON>>]
             ELSE [ud |-> [ud1 EXCEPT ![u] = [d2 EXCEPT !.messages = Append(@, <<h, t>>)]],
                   mid |-> d1, ret |-> <<FALSE, NoReason>>]

\* check_and_record(user_id, message, had_injection) at time t: the records
\* afterwards, the caller's record as the cleanup step left it, and the
\* value returned.
check_and_record(ud, u, m, had_injection, t) ==
    LET ud1 == ensure_user(ud, u, t)
        d1  == cleanup(ud1[u], t)
        h   == msg_hash(m)
    IN  IF is_duplicate_abuse(duplicate_count(d1, h, t))
        THEN [ud |-> [ud1 EXCEPT ![u] = d1], mid |-> d1, ret |-> <<TRUE, DUPLICATE_REASON>>]
        ELSE LET d2 == IF had_injection
                       THEN [d1 EXCEPT !.injection_count = @ + 1] ELSE d1
             IN  IF had_injection /\ is_injection_abuse(d2.injection_count)
                 THEN [ud |-> [ud1 EXCEPT ![u] = d2], mid |-> d1,
                       ret |-> <<TRUE, INJECTION_REASON>>]
                 ELSE [ud |-> [ud1 EXCEPT ![u] = [d2 EXCEPT !.messages = Append(@, <<h, t>>)]],
                       mid |-> d1, ret |-> <<FALSE, NoReason>>]

\* clear_user(user_id)
clear_user(ud, u) == [x \in DOMAIN ud \ {u} |-> ud[x]]

NoCheck ==
    [ user |-> "none", fp |-> 0, had_injection |-> FALSE,
      at |-> 0, ret |-> <<FALSE, NoReason>>, created |-> FALSE,
      pre |-> NewUserData(0), mid |-> NewUserData(0) ]

(***************************************************************************)
(* Initial state and actions of the CircuitBreaker                         *)
(***************************************************************************)

NoCall == [op |-> "none", ret |-> FALSE, pre |-> CircuitBreakerInit, at |-> 0]

\* No pure function is being called.
NoFunctionCall == [fn |-> "none", done |-> FALSE]

\* The tasks of the event loop that serve requests at the same time.
Procs == {"p1", "p2"}

\* No request is being served.
NoRequest == [pc |-> "idle", seen |-> AbuseDetectorInit, overlapped |-> FALSE]

\* No call of call_openai_with_retry is in progress.
NoUpstreamCall ==
    [ pc |-> "idle", attempt |-> 0, invocations |-> 0, reports |-> 0, failures |-> 0,
      seen |-> CircuitBreakerInit, result |-> "none" ]

ConcInit ==
    /\ reqs = [p \in Procs |-> NoRequest]
    /\ served = <<>>
    /\ calls = [p \in Procs |-> NoUpstreamCall]

ExtraInit == fcall = NoFunctionCall /\ ConcInit

Init ==
    /\ now = 0
    /\ cb = CircuitBreakerInit
    /\ cbLast = NoCall
    /\ cbConsec = 0
    /\ cbGranted = 0
    /\ rt = RetryIdle(MaxAttempts, FALSE, FALSE)
    /\ user_data = AbuseDetectorInit
    /\ adLast = NoCheck
    /\ adLog = <<>>
    /\ ExtraInit

\* The clock advances between calls.
Tick ==
    /\ now < MaxTime
    /\ now' = now + 1
    /\ UNCHANGED <<cb, cbLast, cbConsec, cbGranted, rt, abuseVars, extraVars>>

\* A reader of breaker.state (the health endpoint).
ReadState ==
    /\ cb' = StateProperty(cb, now)
    /\ cbLast' = [op |-> "state", ret |-> FALSE, pre |-> cb, at |-> now]
    /\ cbGranted' = GrantedAfter(cb, cb', FALSE, cbGranted)
    /\ UNCHANGED <<now, cbConsec, rt, abuseVars, extraVars>>

AllowRequest ==
    LET r == allow_request(cb, now) IN
    /\ cb' = r.b
    /\ cbLast' = [op |-> "allow_request", ret |-> r.ret, pre |-> cb, at |-> now]
    /\ cbGranted' = GrantedAfter(cb, r.b, r.ret, cbGranted)
    /\ UNCHANGED <<now, cbConsec, rt, abuseVars, extraVars>>

RecordSuccess ==
    /\ cb' = record_success(cb)
    /\ cbLast' = [op |-> "record_success", ret |-> FALSE, pre |-> cb, at |-> now]
    /\ cbConsec' = 0
    /\ UNCHANGED <<now, cbGranted, rt, abuseVars, extraVars>>

RecordFailure ==
    /\ cb.failure_count < MaxFailureCount
    /\ cb' = record_failure(cb, now)
    /\ cbLast' = [op |-> "record_failure", ret |-> FALSE, pre |-> cb, at |-> now]
    /\ cbConsec' = cbConsec + 1
    /\ UNCHANGED <<now, cbGranted, rt, abuseVars, extraVars>>

Reset ==
    /\ cb' = reset(cb)
    /\ cbLast' = [op |-> "reset", ret |-> FALSE, pre |-> cb, at |-> now]
    /\ cbConsec' = 0
    /\ UNCHANGED <<now, cbGranted, rt, abuseVars, extraVars>>

NextBreaker ==
    \/ Tick
    \/ ReadState
    \/ AllowRequest
    \/ RecordSuccess
    \/ RecordFailure
    \/ Reset

SpecBreaker == Init /\ [][NextBreaker]_vars

(***************************************************************************)
(* Actions of the AbuseDetector                                            *)
(***************************************************************************)

\* The clock advances between the requests.
TickAbuse ==
    /\ now < MaxAbuseTime
    /\ now' = now + 1
    /\ UNCHANGED <<breakerVars, rt, abuseVars, extraVars>>

\* A request of caller u is checked; the history keeps its fingerprint.
CheckAndRecord ==
    /\ Len(adLog) < MaxCalls
    /\ \E u \in Users, m \in Messages, inj \in BOOLEAN :
         LET r       == check_and_record(user_data, u, m, inj, now)
             created == u \notin DOMAIN user_data
             pre     == IF created THEN NewUserData(now) ELSE user_data[u]
         IN  /\ user_data' = r.ud
             /\ adLast' = [ user |-> u, fp |-> msg_hash(m), had_injection |-> inj, at |-> now,
                            ret |-> r.ret, created |-> created, pre |-> pre, mid |-> r.mid ]
             /\ adLog' = Append(adLog,
                    [ user |-> u, fp |-> msg_hash(m), had_injection |-> inj, at |-> now,
                      reason |-> r.ret[2],
                      restart |-> created \/ now - pre.last_cleanup > window_seconds ])
    /\ UNCHANGED <<now, breakerVars, rt, extraVars>>

\* The record of caller u is cleared; its history starts again.
ClearUser ==
    /\ \E u \in DOMAIN user_data :
         /\ user_data' = clear_user(user_data, u)
         /\ adLog' = SelectSeq(adLog, LAMBDA c : c.user # u)
    /\ adLast' = NoCheck
    /\ UNCHANGED <<now, breakerVars, rt, extraVars>>

NextAbuse ==
    \/ TickAbuse
    \/ CheckAndRecord
    \/ ClearUser

SpecAbuse == Init /\ [][NextAbuse]_vars

(***************************************************************************)
(* Properties of the CircuitBreaker                                        *)
(***************************************************************************)

\* C1: while CLOSED, allow_request() returns True, record_success() leaves the
\* failure count at 0, record_failure() opens the breaker exactly when the
\* failures recorded since the last success (or since it closed) reach
\* failure_threshold, and no other call leaves CLOSED.
C1_ClosedBehaviour ==
    cbLast.pre.state = CLOSED =>
        /\ cbLast.op = "allow_request" => cbLast.ret = TRUE
        /\ cbLast.op = "record_success" => cb.failure_count = 0
        /\ cbLast.op = "record_failure" =>
               /\ cb.state \in {CLOSED, OPEN}
               /\ cb.state = OPEN <=> cbConsec = failure_threshold
               /\ cbConsec < failure_threshold => cb.state = CLOSED
        /\ cbLast.op \in {"none", "state", "allow_request", "record_success", "reset"} =>
               cb.state = CLOSED

\* C1 witness: the failure that completes failure_threshold consecutive
\* failures has just opened a CLOSED breaker.
C1_Witness ==
    /\ cbLast.op = "record_failure"
    /\ cbLast.pre.state = CLOSED
    /\ cbConsec = failure_threshold
    /\ cb.state = OPEN

\* C2: allow_request() on an OPEN breaker returns False and leaves it OPEN
\* while less than recovery_timeout has elapsed since the last recorded
\* failure; once it has elapsed the call moves the breaker to HALF_OPEN with
\* the trial counter restarted, and within a half-open episode
\* allow_request() returns True for the first half_open_max_calls calls and
\* False afterwards.
C2_OpenBehaviour ==
    /\ cb.state = HALF_OPEN => cbGranted <= half_open_max_calls
    /\ cbLast.op = "allow_request" =>
        /\ (cbLast.pre.state = OPEN
              /\ cbLast.at - cbLast.pre.last_failure_time < recovery_timeout) =>
               cbLast.ret = FALSE /\ cb.state = OPEN
        /\ (cbLast.pre.state = OPEN
              /\ cbLast.at - cbLast.pre.last_failure_time >= recovery_timeout) =>
               /\ cb.state = HALF_OPEN
               /\ cbLast.ret = TRUE
               /\ cb.half_open_calls = 1
               /\ cbGranted = 1
        /\ (cb.state = HALF_OPEN /\ cbLast.ret = FALSE) =>
               cbGranted = half_open_max_calls

\* C2 witness: a second half-open episode has started with a first trial
\* granted by the allow_request() that found the recovery timeout elapsed.
C2_Witness ==
    /\ cbLast.op = "allow_request"
    /\ cbLast.pre.state = OPEN
    /\ cbLast.pre.half_open_calls = half_open_max_calls
    /\ cbLast.at - cbLast.pre.last_failure_time >= recovery_timeout
    /\ cb.state = HALF_OPEN
    /\ cbLast.ret = TRUE

\* C3: a record_failure() in HALF_OPEN moves the breaker to OPEN and sets the
\* success counter to 0.
C3_HalfOpenFailure ==
    (cbLast.op = "record_failure" /\ cbLast.pre.state = HALF_OPEN) =>
        cb.state = OPEN /\ cb.success_count = 0

\* C3 witness: a failure arrived in HALF_OPEN after a success was counted.
C3_Witness ==
    /\ cbLast.op = "record_failure"
    /\ cbLast.pre.state = HALF_OPEN
    /\ cbLast.pre.success_count > 0
    /\ cb.state = OPEN

\* C4 as stated: the record_success() that completes half_open_max_calls
\* successes in HALF_OPEN closes the breaker with the failure count, the
\* success count and the half-open trial counter all 0.
C4_AllCountersZero ==
    (/\ cbLast.op = "record_success"
     /\ cbLast.pre.state = HALF_OPEN
     /\ cbLast.pre.success_count + 1 >= half_open_max_calls) =>
        /\ cb.state = CLOSED
        /\ cb.failure_count = 0
        /\ cb.success_count = 0
        /\ cb.half_open_calls = 0

\* C4 amended: record_success() in HALF_OPEN increments the success counter;
\* when it reaches half_open_max_calls the breaker closes with the failure
\* count and the success count 0, and the half-open trial counter keeps the
\* value it had.
C4_HalfOpenSuccess ==
    (cbLast.op = "record_success" /\ cbLast.pre.state = HALF_OPEN) =>
        IF cbLast.pre.success_count + 1 >= half_open_max_calls
        THEN /\ cb.state = CLOSED
             /\ cb.failure_count = 0
             /\ cb.success_count = 0
             /\ cb.half_open_calls = cbLast.pre.half_open_calls
        ELSE /\ cb.state = HALF_OPEN
             /\ cb.success_count = cbLast.pre.success_count + 1
             /\ cb.half_open_calls = cbLast.pre.half_open_calls

\* C4 witness: the closing success found trial calls counted, and they are
\* still counted after the breaker closed.
C4_Witness ==
    /\ cbLast.op = "record_success"
    /\ cbLast.pre.state = HALF_OPEN
    /\ cbLast.pre.half_open_calls > 0
    /\ cb.state = CLOSED
    /\ cb.half_open_calls > 0

(***************************************************************************)
(* Initial states and actions of with_retry                                *)
(***************************************************************************)

InitRetry ==
    /\ now = 0
    /\ cb = CircuitBreakerInit
    /\ cbLast = NoCall
    /\ cbConsec = 0
    /\ cbGranted = 0
    /\ \E n \in 0..MaxAttempts, c \in BOOLEAN, j \in BOOLEAN : rt = RetryIdle(n, c, j)
    /\ user_data = AbuseDetectorInit
    /\ adLast = NoCheck
    /\ adLog = <<>>
    /\ ExtraInit

\* The wrapper is called.
RetryCall ==
    /\ rt.pc = "idle"
    /\ rt' = next_attempt(rt)
    /\ UNCHANGED <<now, breakerVars, abuseVars, extraVars>>

\* The awaited operation returns a value.
FuncReturns ==
    /\ rt.pc = "await_func"
    /\ LET o == [kind |-> "ok", id |-> rt.invocations] IN
       rt' = [rt EXCEPT !.outcomes = Append(@, o), !.pc = "done",
                        !.result = [kind |-> "return", error |-> o, attempts |-> 0]]
    /\ UNCHANGED <<now, breakerVars, abuseVars, extraVars>>

\* The awaited operation raises; the wrapper runs up to its next suspension.
FuncRaises ==
    /\ rt.pc = "await_func"
    /\ \E k \in {"eligible", "other"}, throws \in BOOLEAN, pct \in JitterPercents :
         LET e == [kind |-> k, id |-> rt.invocations] IN
         rt' = handle_exception([rt EXCEPT !.outcomes = Append(@, e)], e, throws, pct)
    /\ UNCHANGED <<now, breakerVars, abuseVars, extraVars>>

\* asyncio.sleep(delay) is over.
SleepDone ==
    /\ rt.pc = "sleeping"
    /\ rt' = next_attempt(rt)
    /\ UNCHANGED <<now, breakerVars, abuseVars, extraVars>>

NextRetry ==
    \/ RetryCall
    \/ FuncReturns
    \/ FuncRaises
    \/ SleepDone

SpecRetry == InitRetry /\ [][NextRetry]_vars

(***************************************************************************)
(* Properties of with_retry                                                *)
(***************************************************************************)

AllEligible(os) == \A i \in 1..Len(os) : os[i].kind = "eligible"

\* C5: with max_attempts = n >= 1, an operation whose every invocation raises
\* an eligible error is invoked exactly n times and the call ends with
\* RetryExhausted carrying the last error and attempts = n; an invocation
\* raising a non-eligible error ends the call with that very error, and when
\* the operation does so from the start it has been invoked exactly once.
C5_RetryExhaustion ==
    (rt.max_attempts >= 1 /\ rt.pc = "done") =>
        LET os == rt.outcomes
            n  == rt.max_attempts
        IN  /\ rt.invocations = Len(os)
            /\ Len(os) >= 1
            /\ AllEligible(os) =>
                   /\ rt.invocations = n
                   /\ rt.result = [kind |-> "RetryExhausted", error |-> os[n], attempts |-> n]
                   /\ os[n].id = n
            /\ os[Len(os)].kind = "other" =>
                   rt.result = [kind |-> "raise", error |-> os[Len(os)], attempts |-> 0]
            /\ os[1].kind = "other" => rt.invocations = 1

\* C5 witness: max_attempts = 3 and three eligible failures ended in
\* RetryExhausted.
C5_Witness ==
    /\ rt.pc = "done"
    /\ rt.max_attempts = 3
    /\ rt.invocations = 3
    /\ AllEligible(rt.outcomes)
    /\ rt.result.kind = "RetryExhausted"

\* The eligible failures that are not on the final attempt.
RetriedFailures(r) ==
    {i \in 1..Len(r.outcomes) : r.outcomes[i].kind = "eligible" /\ i < r.max_attempts}

\* What the call ends with, as a function of the operation's outcomes alone.
OutcomeOf(os, n) ==
    LET l == os[Len(os)] IN
    IF l.kind = "ok" THEN [kind |-> "return", error |-> l, attempts |-> 0]
    ELSE IF l.kind = "other" THEN [kind |-> "raise", error |-> l, attempts |-> 0]
    ELSE [kind |-> "RetryExhausted", error |-> l, attempts |-> n]

\* C6: a given on_retry callback is called exactly once per eligible failure
\* that is not the final attempt, with that error and the attempt number,
\* before the sleep of that attempt; whether or not the callback raises, the
\* retry goes on to the next invocation and the call ends with the result
\* the operation's outcomes determine.
C6_OnRetryCallback ==
    (rt.max_attempts >= 1 /\ rt.pc # "idle") =>
        LET os == rt.outcomes
            k  == Cardinality(RetriedFailures(rt))
        IN  /\ rt.has_on_retry =>
                   /\ Len(rt.on_retry_calls) = k
                   /\ \A i \in 1..k :
                          rt.on_retry_calls[i] =
                              [error |-> os[i], attempt |-> i, slept |-> i - 1]
            /\ ~rt.has_on_retry => rt.on_retry_calls = <<>>
            /\ rt.sleeps = k
            /\ rt.pc = "sleeping" <=>
                   (/\ Len(os) = rt.invocations
                    /\ Len(os) \in RetriedFailures(rt))
            /\ rt.pc = "done" =>
                   /\ rt.invocations = Len(os)
                   /\ rt.result = OutcomeOf(os, rt.max_attempts)
                   /\ os[Len(os)].kind = "eligible" => Len(os) = rt.max_attempts

\* C6 witness: the callback raised on both retries of a call that then
\* succeeded on its third invocation.
C6_Witness ==
    /\ rt.pc = "done"
    /\ rt.has_on_retry
    /\ rt.on_retry_threw = 2
    /\ rt.invocations = 3
    /\ rt.result.kind = "return"

(***************************************************************************)
(* Properties of the AbuseDetector                                         *)
(***************************************************************************)

\* The earlier calls of the caller of call i, and those among them that
\* carried the fingerprint of call i.
EarlierCalls(i) == {j \in 1..(i - 1) : adLog[j].user = adLog[i].user}
EarlierSameFingerprint(i) == {j \in EarlierCalls(i) : adLog[j].fp = adLog[i].fp}

\* Call i and every earlier call of its caller with its fingerprint were made
\* less than window_seconds before call i, none of them flagged as injection.
RepeatsWithinWindow(i) ==
    \A j \in EarlierSameFingerprint(i) \cup {i} :
        /\ ~adLog[j].had_injection
        /\ adLog[i].at - adLog[j].at < window_seconds

\* The fresh entries of record d that carry fingerprint fp, at time t.
FreshDuplicates(d, fp, t) ==
    {i \in 1..Len(d.messages) :
        d.messages[i][1] = fp /\ t - d.messages[i][2] < window_seconds}

\* C7 as stated: of the calls by which a caller sends one message within the
\* window, the first two are reported not abusive and the third is reported
\* abusive with "Too many duplicate messages".
C7_ThirdDuplicateRejected ==
    (adLast.user # "none" /\ RepeatsWithinWindow(Len(adLog))) =>
        LET sent == Cardinality(EarlierSameFingerprint(Len(adLog))) IN
        /\ sent < 2 => adLast.ret = <<FALSE, NoReason>>
        /\ sent = 2 => adLast.ret = <<TRUE, DUPLICATE_REASON>>

\* C7 amended: of the calls by which a caller sends one message (or messages
\* of one fingerprint) within the window, none flagged as injection, the
\* first three are reported not abusive and every later one is reported
\* abusive with "Too many duplicate messages".
C7_FourthDuplicateRejected ==
    (adLast.user # "none" /\ RepeatsWithinWindow(Len(adLog))) =>
        LET sent == Cardinality(EarlierSameFingerprint(Len(adLog))) IN
        /\ sent < duplicate_threshold => adLast.ret = <<FALSE, NoReason>>
        /\ sent >= duplicate_threshold => adLast.ret = <<TRUE, DUPLICATE_REASON>>

\* C7 witness: the fourth call with one fingerprint within the window was
\* rejected as a duplicate.
C7_Witness ==
    /\ adLast.user # "none"
    /\ RepeatsWithinWindow(Len(adLog))
    /\ Cardinality(EarlierSameFingerprint(Len(adLog))) = 3
    /\ adLast.ret = <<TRUE, DUPLICATE_REASON>>

\* C8 as stated: a call that finds duplicate_threshold or more fresh entries
\* with its fingerprint in the caller's record reports duplicate abuse and
\* leaves the record's entries and injection counter as they were.
C8_RejectionLeavesRecord ==
    (/\ adLast.user # "none"
     /\ Cardinality(FreshDuplicates(adLast.pre, adLast.fp, adLast.at)) >= duplicate_threshold) =>
        /\ adLast.ret = <<TRUE, DUPLICATE_REASON>>
        /\ user_data[adLast.user].messages = adLast.pre.messages
        /\ user_data[adLast.user].injection_count = adLast.pre.injection_count

\* C8 amended: such a call reports duplicate abuse without recording its
\* message and without counting an injection attempt, also when
\* had_injection is true: the record is unchanged when no cleanup was due,
\* and when the cleanup was due only the cleanup has acted (stale entries
\* dropped, injection counter 0).
C8_RejectionRecordsNothing ==
    (/\ adLast.user # "none"
     /\ Cardinality(FreshDuplicates(adLast.pre, adLast.fp, adLast.at)) >= duplicate_threshold) =>
        LET post == user_data[adLast.user]
            pre  == adLast.pre
        IN  /\ adLast.ret = <<TRUE, DUPLICATE_REASON>>
            /\ IF adLast.at - pre.last_cleanup > window_seconds
               THEN /\ post.messages =
                          SelectSeq(pre.messages,
                                    LAMBDA e : adLast.at - e[2] < window_seconds)
                    /\ post.injection_count = 0
               ELSE /\ post.messages = pre.messages
                    /\ post.injection_count = pre.injection_count

\* C8 witness: a call flagged as injection was rejected as a duplicate in the
\* call whose cleanup dropped an entry and reset a non-zero injection counter.
C8_Witness ==
    /\ adLast.user # "none"
    /\ adLast.had_injection
    /\ adLast.ret = <<TRUE, DUPLICATE_REASON>>
    /\ adLast.at - adLast.pre.last_cleanup > window_seconds
    /\ adLast.pre.injection_count > 0
    /\ Len(user_data[adLast.user].messages) < Len(adLast.pre.messages)

\* The call that began the current counting period of the caller of call i:
\* the last one up to i that created the record or ran the cleanup.
PeriodStart(i) ==
    CHOOSE j \in 1..i :
        /\ adLog[j].user = adLog[i].user
        /\ adLog[j].restart
        /\ \A l \in (j + 1)..i : ~(adLog[l].user = adLog[i].user /\ adLog[l].restart)

\* The calls of that period, up to and including call i, that were flagged as
\* injection and not rejected as duplicates.
InjectionCalls(i) ==
    {j \in PeriodStart(i)..i :
        /\ adLog[j].user = adLog[i].user
        /\ adLog[j].had_injection
        /\ adLog[j].reason # DUPLICATE_REASON}

\* C9: a call with had_injection = true that is not rejected as a duplicate
\* reports "Too many suspicious requests" iff it is at least the
\* injection_threshold-th such call since the last cleanup, and then its
\* message is not added to the window.
C9_InjectionThreshold ==
    (/\ adLast.user # "none"
     /\ adLast.had_injection
     /\ adLast.ret # <<TRUE, DUPLICATE_REASON>>) =>
        LET k == Cardinality(InjectionCalls(Len(adLog))) IN
        /\ adLast.ret = <<TRUE, INJECTION_REASON>> <=> k >= injection_threshold
        /\ k < injection_threshold => adLast.ret = <<FALSE, NoReason>>
        /\ adLast.ret = <<TRUE, INJECTION_REASON>> =>
               user_data[adLast.user].messages = adLast.mid.messages

\* C9 witness: the injection_threshold-th flagged call of a period that began
\* with a cleanup was reported as suspicious.
C9_Witness ==
    /\ adLast.user # "none"
    /\ adLast.ret = <<TRUE, INJECTION_REASON>>
    /\ Cardinality(InjectionCalls(Len(adLog))) = injection_threshold
    /\ PeriodStart(Len(adLog)) > 1

\* Every earlier call of the caller of call i was made more than
\* window_seconds before call i, and there is one.
WindowElapsed(i) ==
    /\ EarlierCalls(i) # {}
    /\ \A j \in EarlierCalls(i) : adLog[i].at - adLog[j].at > window_seconds

\* C10: a call made more than window_seconds after every earlier call of its
\* caller first drops all the caller's entries and resets the injection
\* counter to 0, and with had_injection = false it is reported not abusive
\* and its message is the only entry recorded.
C10_FreshWindow ==
    (adLast.user # "none" /\ WindowElapsed(Len(adLog))) =>
        /\ adLast.mid.messages = <<>>
        /\ adLast.mid.injection_count = 0
        /\ ~adLast.had_injection =>
               /\ adLast.ret = <<FALSE, NoReason>>
               /\ user_data[adLast.user].messages = << <<adLast.fp, adLast.at>> >>
               /\ user_data[adLast.user].injection_count = 0

\* C10 witness: a caller that had been rejected and had entries and counted
\* injection attempts is accepted after the window has elapsed.
C10_Witness ==
    /\ adLast.user # "none"
    /\ WindowElapsed(Len(adLog))
    /\ ~adLast.had_injection
    /\ adLast.pre.injection_count > 0
    /\ adLast.pre.messages # <<>>
    /\ \E j \in EarlierCalls(Len(adLog)) : adLog[j].reason # NoReason
    /\ adLast.ret = <<FALSE, NoReason>>

(***************************************************************************)
(* Conversation trimming (apps/api-python/conversation.py)                 *)
(*                                                                         *)
(* A text is known by its length and by the number of blanks and line      *)
(* breaks in it, which is all the token estimate reads.  A message is a    *)
(* record of its role, its content, its tool calls and its position in the *)
(* list handed to trim_conversation_history.                               *)
(***************************************************************************)

Text(chars, blanks) == [chars |-> chars, blanks |-> blanks]

Max(a, b) == IF a >= b THEN a ELSE b

\* estimate_tokens(text), the character heuristic
estimate_tokens(text) ==
    IF text.chars = 0 THEN 0
    ELSE Max(1, (text.chars \div 4) + (text.blanks \div 4))

RECURSIVE tool_calls_tokens(_)
tool_calls_tokens(tcs) ==
    IF tcs = <<>> THEN 0
    ELSE estimate_tokens(Head(tcs).name) + estimate_tokens(Head(tcs).arguments)
         + tool_calls_tokens(Tail(tcs))

\* count_message_tokens(message), for a message with a string content
count_message_tokens(message) ==
    4 + estimate_tokens(message.content)
      + tool_calls_tokens(message.tool_calls)
      + (IF message.role = "tool" THEN estimate_tokens(message.content) ELSE 0)

RECURSIVE sum_message_tokens(_)
sum_message_tokens(messages) ==
    IF messages = <<>> THEN 0
    ELSE count_message_tokens(Head(messages)) + sum_message_tokens(Tail(messages))

\* count_messages_tokens(messages)
count_messages_tokens(messages) == 3 + sum_message_tokens(messages)

\* The kinds of message the lists are built from.
MessageKinds ==
    { [role |-> "system", content |-> Text(4, 0), tool_calls |-> <<>>],
      [role |-> "system", content |-> Text(40, 8), tool_calls |-> <<>>],
      [role |-> "user", content |-> Text(4, 0), tool_calls |-> <<>>],
      [role |-> "tool", content |-> Text(4, 0), tool_calls |-> <<>>],
      [role |-> "assistant", content |-> Text(0, 0),
       tool_calls |-> <<[name |-> Text(8, 0), arguments |-> Text(16, 0)]>>] }

\* A list of messages, each carrying its position in the list.
MessageList(kinds) ==
    [i \in 1..Len(kinds) |->
        [pos |-> i, role |-> kinds[i].role, content |-> kinds[i].content,
         tool_calls |-> kinds[i].tool_calls]]

MessageLists ==
    UNION { {MessageList(ks) : ks \in [1..n -> MessageKinds]} : n \in 0..MaxMessages }

\* The partition of lines 170-177.
is_system_msg(msg, preserve_system) == msg.role = "system" /\ preserve_system

system_msgs(messages, preserve_system) ==
    SelectSeq(messages, LAMBDA msg : is_system_msg(msg, preserve_system))

other_msgs(messages, preserve_system) ==
    SelectSeq(messages, LAMBDA msg : ~is_system_msg(msg, preserve_system))

\* other_msgs[-preserve_recent:] if len(other_msgs) > preserve_recent else other_msgs[:]
\* (the slice [-0:] is the whole list)
preserved_msgs(others, preserve_recent) ==
    IF Len(others) > preserve_recent
    THEN IF preserve_recent = 0 THEN others
         ELSE SubSeq(others, Len(others) - preserve_recent + 1, Len(others))
    ELSE others

\* other_msgs[:-preserve_recent] if len(other_msgs) > preserve_recent else []
\* (the slice [:-0] is empty)
older_msgs(others, preserve_recent) ==
    IF Len(others) > preserve_recent
    THEN IF preserve_recent = 0 THEN <<>>
         ELSE SubSeq(others, 1, Len(others) - preserve_recent)
    ELSE <<>>

Front(s) == SubSeq(s, 1, Len(s) - 1)
Last(s) == s[Len(s)]

RECURSIVE keep_older_noDecrement(_, _)
keep_older_noDecrement(older, remaining_tokens) ==
    IF older = <<>> THEN <<>>
    ELSE IF count_message_tokens(Last(older)) <= remaining_tokens
         THEN Append(keep_older_noDecrement(Front(older), remaining_tokens), Last(older))
         ELSE <<>>

RECURSIVE keep_older_appended(_, _)
keep_older_appended(older, remaining_tokens) ==
    IF older = <<>> THEN <<>>
    ELSE IF count_message_tokens(Last(older)) <= remaining_tokens
         THEN <<Last(older)>> \o
              keep_older_appended(Front(older),
                                  remaining_tokens - count_message_tokens(Last(older)))
         ELSE <<>>

RECURSIVE keep_older_skipping(_, _)
keep_older_skipping(older, remaining_tokens) ==
    IF older = <<>> THEN <<>>
    ELSE IF count_message_tokens(Last(older)) <= remaining_tokens
         THEN Append(keep_older_skipping(Front(older),
                                         remaining_tokens - count_message_tokens(Last(older))),
                     Last(older))
         ELSE keep_older_skipping(Front(older), remaining_tokens)

\* The loop of lines 204-212: the older messages from the newest to the oldest,
\* each put in front of the kept ones while it fits, until one does not.
RECURSIVE keep_older(_, _)
keep_older(older, remaining_tokens) ==
    IF older = <<>> THEN <<>>
    ELSE IF count_message_tokens(Last(older)) <= remaining_tokens
         THEN Append(keep_older(Front(older),
                                remaining_tokens - count_message_tokens(Last(older))),
                     Last(older))
         ELSE <<>>

\* trim_conversation_history(messages, max_tokens=..., preserve_system=..., preserve_recent=...)
trim_conversation_history(messages, max_tokens, preserve_system, preserve_recent) ==
    IF messages = <<>> THEN messages
    ELSE
    LET sys              == system_msgs(messages, preserve_system)
        others           == other_msgs(messages, preserve_system)
        system_tokens    == count_messages_tokens(sys)
        available_tokens == max_tokens - system_tokens
        preserved        == preserved_msgs(others, preserve_recent)
        older            == older_msgs(others, preserve_recent)
        preserved_tokens == count_messages_tokens(preserved)
    IN  IF available_tokens <= 0 THEN sys
        ELSE IF preserved_tokens > available_tokens THEN sys \o preserved
        ELSE sys \o keep_older(older, available_tokens - preserved_tokens) \o preserved

InitTrim ==
    /\ now = 0
    /\ cb = CircuitBreakerInit
    /\ cbLast = NoCall
    /\ cbConsec = 0
    /\ cbGranted = 0
    /\ rt = RetryIdle(MaxAttempts, FALSE, FALSE)
    /\ user_data = AbuseDetectorInit
    /\ adLast = NoCheck
    /\ adLog = <<>>
    /\ ConcInit
    /\ \E ms \in MessageLists, mt \in 0..MaxCeiling, ps \in BOOLEAN,
          pr \in 0..MaxPreserveRecent :
         fcall = [ fn |-> "trim_conversation_history", done |-> FALSE,
                   messages |-> ms, max_tokens |-> mt,
                   preserve_system |-> ps, preserve_recent |-> pr, out |-> <<>> ]

\* The call returns.
TrimConversationHistory ==
    /\ fcall.fn = "trim_conversation_history"
    /\ ~fcall.done
    /\ fcall' = [fcall EXCEPT !.done = TRUE,
                   !.out = trim_conversation_history(fcall.messages, fcall.max_tokens,
                               fcall.preserve_system, fcall.preserve_recent)]
    /\ UNCHANGED <<now, breakerVars, rt, abuseVars, concVars>>

NextTrim == TrimConversationHistory

SpecTrim == InitTrim /\ [][NextTrim]_vars

(***************************************************************************)
(* Properties of trim_conversation_history                                 *)
(***************************************************************************)

TrimDone == fcall.fn = "trim_conversation_history" /\ fcall.done

TrimSystem == system_msgs(fcall.messages, fcall.preserve_system)
TrimOthers == other_msgs(fcall.messages, fcall.preserve_system)
TrimTail == preserved_msgs(TrimOthers, fcall.preserve_recent)
TrimOlder == older_msgs(TrimOthers, fcall.preserve_recent)

Range(s) == {s[i] : i \in DOMAIN s}

\* The last min(k, n) messages of a list of n messages.
LastMessages(s, k) == SubSeq(s, Len(s) - Min(k, Len(s)) + 1, Len(s))

\* C13 as stated: the output costs at most max_tokens, or the last
\* preserve_recent non-system messages alone cost more than max_tokens.
C13_FitsOrTailExceedsCeiling ==
    TrimDone =>
        \/ count_messages_tokens(fcall.out) <= fcall.max_tokens
        \/ count_messages_tokens(LastMessages(TrimOthers, fcall.preserve_recent))
               > fcall.max_tokens

\* C13: the output of trim_conversation_history costs at most max_tokens, or
\* the system messages alone cost max_tokens or more, or the messages kept as
\* the recent tail cost more than max_tokens less the cost of the system
\* messages.
C13_FitsOrDegenerate ==
    TrimDone =>
        \/ count_messages_tokens(fcall.out) <= fcall.max_tokens
        \/ count_messages_tokens(TrimSystem) >= fcall.max_tokens
        \/ count_messages_tokens(TrimTail)
               > fcall.max_tokens - count_messages_tokens(TrimSystem)

\* An older message was dropped, an older message was kept, and the output fits.
C13_Witness ==
    /\ TrimDone
    /\ \E m \in Range(TrimOlder) : m \notin Range(fcall.out)
    /\ \E m \in Range(TrimOlder) : m \in Range(fcall.out)
    /\ TrimSystem # <<>>
    /\ count_messages_tokens(fcall.out) <= fcall.max_tokens

Increasing(s) == \A i, j \in DOMAIN s : i < j => s[i].pos < s[j].pos

\* C14: the system messages of the output are in the order they had in the
\* input, and so are the other messages; every message of the output is one of
\* the input; with preserve_system every system message of the input is in the
\* output.
C14_OrderKept ==
    TrimDone =>
        /\ Range(fcall.out) \subseteq Range(fcall.messages)
        /\ Increasing(SelectSeq(fcall.out, LAMBDA m : m.role = "system"))
        /\ Increasing(SelectSeq(fcall.out, LAMBDA m : m.role # "system"))
        /\ fcall.preserve_system =>
              \A m \in Range(fcall.messages) : m.role = "system" => m \in Range(fcall.out)

\* Two system messages stand behind two other messages, of which the older
\* one is dropped and the newer one is kept.
C14_Witness ==
    /\ TrimDone
    /\ fcall.preserve_system
    /\ Len(fcall.messages) = 4
    /\ fcall.messages[3].role = "system" /\ fcall.messages[4].role = "system"
    /\ fcall.messages[1] \notin Range(fcall.out)
    /\ fcall.messages[2] \in Range(fcall.out)

\* The older messages that are in the output, in the order of the output.
KeptOlder == SelectSeq(fcall.out, LAMBDA m : m \in Range(TrimOlder))

\* What the ceiling leaves for the older messages after the system messages,
\* the recent tail and the older messages already kept.
BudgetLeft ==
    fcall.max_tokens - count_messages_tokens(TrimSystem)
        - count_messages_tokens(TrimTail) - sum_message_tokens(KeptOlder)

\* C15: the older messages that are kept are the newest ones of the older
\* messages, without a gap, and the newest older message that is dropped costs
\* more than the budget left, so that no older message is kept when a newer
\* older message was dropped.
C15_NewestOlderSuffix ==
    TrimDone =>
        \E k \in 0..Len(TrimOlder) :
            /\ KeptOlder = SubSeq(TrimOlder, k + 1, Len(TrimOlder))
            /\ k > 0 => count_message_tokens(TrimOlder[k]) > BudgetLeft

\* An older message is kept; the newest older message that is dropped
\* does not fit, while one before it would fit the budget left.
C15_Witness ==
    /\ TrimDone
    /\ KeptOlder # <<>>
    /\ \E k \in 1..Len(TrimOlder) :
          /\ TrimOlder[k] \notin Range(fcall.out)
          /\ \A j \in (k + 1)..Len(TrimOlder) : TrimOlder[j] \in Range(fcall.out)
          /\ \E i \in 1..(k - 1) : count_message_tokens(TrimOlder[i]) <= BudgetLeft

\* C16 as stated: the last min(preserve_recent, n) of the n non-system
\* messages of the input are all in the output.
C16_RecentTailKept ==
    TrimDone =>
        \A m \in Range(LastMessages(SelectSeq(fcall.messages, LAMBDA x : x.role # "system"),
                                    fcall.preserve_recent)) :
            m \in Range(fcall.out)

(***************************************************************************)
(* Input sanitization (apps/api-python/guardrails.py)                      *)
(*                                                                         *)
(* A text is a sequence of characters of a small alphabet: the null byte,  *)
(* the escape character, the characters an ANSI sequence is made of, the   *)
(* line break, the blank, the tab and a letter.                            *)
(***************************************************************************)

NUL == "\\x00"
ESC == "\\x1b"
Alphabet == {NUL, ESC, "[", "0", "m", "\n", "a"}
Whitespace == {"\n", " ", "\t"}

\* The texts of at most n characters.
Texts(n) == UNION { [1..k -> Alphabet] : k \in 0..n }

\* re.sub(r'\x00', '', text)
remove_null(text) == SelectSeq(text, LAMBDA c : c # NUL)

\* The length of the longest prefix of text made of the characters of cs.
RECURSIVE run_length(_, _)
run_length(text, cs) ==
    IF text = <<>> \/ Head(text) \notin cs THEN 0
    ELSE 1 + run_length(Tail(text), cs)

\* The length of the match of \x1b\[[0-9;]*[mGKH] at the start of text, 0 if none.
ansi_match(text) ==
    IF Len(text) >= 3 /\ text[1] = ESC /\ text[2] = "["
    THEN LET n == run_length(SubSeq(text, 3, Len(text)), {"0", ";"}) IN
         IF 3 + n <= Len(text) /\ text[3 + n] \in {"m", "G", "K", "H"}
         THEN 3 + n ELSE 0
    ELSE 0

\* re.sub(r'\x1b\[[0-9;]*[mGKH]', '', text): one pass from left to right over
\* the matches that do not overlap.
RECURSIVE remove_ansi(_)
remove_ansi(text) ==
    IF text = <<>> THEN <<>>
    ELSE IF ansi_match(text) > 0
         THEN remove_ansi(SubSeq(text, ansi_match(text) + 1, Len(text)))
         ELSE <<Head(text)>> \o remove_ansi(Tail(text))

\* re.sub(c{least,}, c * keep, text): every run of at least `least`
\* characters c becomes `keep` of them.
RECURSIVE collapse_run(_, _, _, _)
collapse_run(text, c, least, keep) ==
    IF text = <<>> THEN <<>>
    ELSE LET n == run_length(text, {c}) IN
         IF n >= least
         THEN [i \in 1..keep |-> c] \o collapse_run(SubSeq(text, n + 1, Len(text)), c, least, keep)
         ELSE IF n > 0
         THEN SubSeq(text, 1, n) \o collapse_run(SubSeq(text, n + 1, Len(text)), c, least, keep)
         ELSE <<Head(text)>> \o collapse_run(Tail(text), c, least, keep)

\* The loop over COMPILED_DANGEROUS, in the order of the list.
apply_dangerous_patterns(text) ==
    collapse_run(
        collapse_run(
            collapse_run(remove_ansi(remove_null(text)), "\n", newline_run, newline_keep),
            " ", space_run, space_keep),
        "\t", tab_run, tab_keep)

\* result[:max_length] when len(result) > max_length
truncate(text, max_length) ==
    IF Len(text) > max_length THEN SubSeq(text, 1, max_length) ELSE text

\* str.strip()
RECURSIVE lstrip(_)
lstrip(text) ==
    IF text # <<>> /\ Head(text) \in Whitespace THEN lstrip(Tail(text)) ELSE text

RECURSIVE rstrip(_)
rstrip(text) ==
    IF text # <<>> /\ Last(text) \in Whitespace THEN rstrip(Front(text)) ELSE text

strip(text) == rstrip(lstrip(text))

\* sanitize_input(text, max_length)
sanitize_input(text, max_length) ==
    IF text = <<>> THEN <<>>
    ELSE strip(truncate(apply_dangerous_patterns(text), max_length))

InitSanitize ==
    /\ now = 0
    /\ cb = CircuitBreakerInit
    /\ cbLast = NoCall
    /\ cbConsec = 0
    /\ cbGranted = 0
    /\ rt = RetryIdle(MaxAttempts, FALSE, FALSE)
    /\ user_data = AbuseDetectorInit
    /\ adLast = NoCheck
    /\ adLog = <<>>
    /\ ConcInit
    /\ \E t \in Texts(MaxTextLen), ml \in {MaxTextLen \div 2, MaxTextLen} :
         fcall = [ fn |-> "sanitize_input", done |-> FALSE,
                   text |-> t, max_length |-> ml, outs |-> <<>> ]

\* sanitize_input is called on the text, and then on what it returned.
SanitizeInput ==
    /\ fcall.fn = "sanitize_input"
    /\ Len(fcall.outs) < 2
    /\ LET arg == IF fcall.outs = <<>> THEN fcall.text ELSE Last(fcall.outs) IN
       fcall' = [fcall EXCEPT !.done = TRUE,
                    !.outs = Append(@, sanitize_input(arg, fcall.max_length))]
    /\ UNCHANGED <<now, breakerVars, rt, abuseVars, concVars>>

NextSanitize == SanitizeInput

SpecSanitize == InitSanitize /\ [][NextSanitize]_vars

\* C17 as stated: sanitize_input applied to its own result returns that result.
C17_SanitizeIdempotent ==
    (fcall.fn = "sanitize_input" /\ Len(fcall.outs) = 2) => fcall.outs[2] = fcall.outs[1]

(***************************************************************************)
(* Content filtering and prompt-injection detection                        *)
(* (apps/api-python/guardrails.py)                                         *)
(*                                                                         *)
(* The texts of these two functions are sequences of words.  A word of a   *)
(* text given to check_content_safety is the number of the entry of        *)
(* SENSITIVE_TOPICS whose pattern it matches, or 0 for a word that matches *)
(* none.                                                                   *)
(***************************************************************************)

SENSITIVE_TOPICS ==
    << [topic |-> "self_harm", severity |-> "critical"],
       [topic |-> "violence", severity |-> "high"],
       [topic |-> "illegal_cyber", severity |-> "high"],
       [topic |-> "pii_request", severity |-> "medium"] >>

TopicTexts == UNION { [1..n -> 0..Len(SENSITIVE_TOPICS)] : n \in 0..MaxTopicWords }

\* pattern.search(text) for the pattern of entry i
topic_search(i, text) == \E k \in DOMAIN text : text[k] = i

\* severity_order.get(severity, 0)
severity_order(severity) ==
    CASE severity = "critical" -> 3
      [] severity = "high" -> 2
      [] severity = "medium" -> 1
      [] OTHER -> 0

NoTopic == "None"

\* The loop over COMPILED_SENSITIVE, from entry i on.
RECURSIVE scan_topics(_, _, _)
scan_topics(i, text, acc) ==
    IF i > Len(SENSITIVE_TOPICS) THEN acc
    ELSE IF topic_search(i, text)
         THEN LET score == severity_order(SENSITIVE_TOPICS[i].severity)
                  acc1 == [acc EXCEPT !.flagged = Append(@, SENSITIVE_TOPICS[i].topic)]
              IN  scan_topics(i + 1, text,
                      IF score > acc.max_severity_score
                      THEN [acc1 EXCEPT !.max_severity_score = score,
                                        !.highest_severity = SENSITIVE_TOPICS[i].topic]
                      ELSE acc1)
         ELSE scan_topics(i + 1, text, acc)

safety_level_highBlocks(max_severity_score) ==
    IF max_severity_score >= 2 THEN "block" ELSE "caution"

\* Lines 228-233: the level of a text with flagged topics.
safety_level(max_severity_score) ==
    IF max_severity_score >= 3 THEN "block"
    ELSE IF max_severity_score >= 2 THEN "caution"
    ELSE "caution"

\* check_content_safety(text)
check_content_safety(text) ==
    IF text = <<>> THEN <<"safe", NoTopic, <<>> >>
    ELSE LET acc == scan_topics(1, text,
                        [flagged |-> <<>>, highest_severity |-> NoTopic,
                         max_severity_score |-> 0])
         IN  IF acc.flagged = <<>> THEN <<"safe", NoTopic, <<>> >>
             ELSE <<safety_level(acc.max_severity_score), acc.highest_severity, acc.flagged>>

\* The other subsystems stay as constructed.
RestInit ==
    /\ now = 0
    /\ cb = CircuitBreakerInit
    /\ cbLast = NoCall
    /\ cbConsec = 0
    /\ cbGranted = 0
    /\ rt = RetryIdle(MaxAttempts, FALSE, FALSE)
    /\ user_data = AbuseDetectorInit
    /\ adLast = NoCheck
    /\ adLog = <<>>
    /\ ConcInit

ContentSafetyCalls ==
    { [fn |-> "check_content_safety", done |-> FALSE, text |-> t,
       out |-> <<"safe", NoTopic, <<>> >>] : t \in TopicTexts }

CheckContentSafety ==
    /\ fcall.fn = "check_content_safety"
    /\ ~fcall.done
    /\ fcall' = [fcall EXCEPT !.done = TRUE, !.out = check_content_safety(fcall.text)]
    /\ UNCHANGED <<now, breakerVars, rt, abuseVars, concVars>>

(***************************************************************************)
(* A word of a text given to detect_prompt_injection is a phrase that one  *)
(* entry of INJECTION_PATTERNS is written for (rule 0: a phrase no entry   *)
(* is written for), in one of four spellings: in lower case, with upper    *)
(* case letters, with a letter whose lower case form is two characters     *)
(* (U+0130, which re.IGNORECASE takes for an i), and with that letter      *)
(* already replaced by its two characters.                                 *)
(***************************************************************************)

INJECTION_PATTERNS ==
    << "instruction_override", "instruction_override", "instruction_override",
       "role_manipulation", "role_manipulation", "role_manipulation",
       "role_manipulation", "role_manipulation",
       "system_extraction", "system_extraction", "system_extraction",
       "jailbreak", "jailbreak", "jailbreak", "jailbreak",
       "encoding_attempt", "encoding_attempt", "encoding_attempt",
       "delimiter_injection", "delimiter_injection", "delimiter_injection" >>

Spellings == {"lower", "upper", "dotted", "decomposed"}

Words ==
    {[rule |-> 0, spelling |-> "lower"]}
        \cup [rule : DOMAIN INJECTION_PATTERNS, spelling : Spellings]

InjectionTexts == UNION { [1..n -> Words] : n \in 0..MaxWords }

\* str.lower()
lower_word(w) ==
    [w EXCEPT !.spelling = CASE @ = "upper" -> "lower"
                             [] @ = "dotted" -> "decomposed"
                             [] OTHER -> @]

lower(text) == [k \in DOMAIN text |-> lower_word(text[k])]

\* Pattern i, compiled with re.IGNORECASE, matches the word.
pattern_matches(i, w) == w.rule = i /\ w.spelling \in {"lower", "upper", "dotted"}

\* pattern.search(text) for the compiled pattern of entry i: the first match, if any
pattern_search(i, text) ==
    IF \E k \in DOMAIN text : pattern_matches(i, text[k])
    THEN <<text[CHOOSE k \in DOMAIN text :
                  /\ pattern_matches(i, text[k])
                  /\ \A j \in 1..(k - 1) : ~pattern_matches(i, text[j])]>>
    ELSE <<>>

NoCategory == "None"
NoMatch == [rule |-> 0, spelling |-> "none"]

\* The loop over COMPILED_PATTERNS, from entry i on.
RECURSIVE scan_patterns(_, _)
scan_patterns(i, text) ==
    IF i > Len(INJECTION_PATTERNS) THEN <<FALSE, NoCategory, NoMatch>>
    ELSE IF pattern_search(i, text) # <<>>
         THEN <<TRUE, INJECTION_PATTERNS[i], pattern_search(i, text)[1]>>
         ELSE scan_patterns(i + 1, text)

\* detect_prompt_injection(text)
detect_prompt_injection(text) ==
    IF text = <<>> THEN <<FALSE, NoCategory, NoMatch>>
    ELSE scan_patterns(1, lower(text))

DetectionCalls ==
    { [fn |-> "detect_prompt_injection", done |-> FALSE, text |-> t,
       out |-> <<FALSE, NoCategory, NoMatch>>] : t \in InjectionTexts }

DetectPromptInjection ==
    /\ fcall.fn = "detect_prompt_injection"
    /\ ~fcall.done
    /\ fcall' = [fcall EXCEPT !.done = TRUE, !.out = detect_prompt_injection(fcall.text)]
    /\ UNCHANGED <<now, breakerVars, rt, abuseVars, concVars>>

(***************************************************************************)
(* Tool call validation and dispatch                                       *)
(* (apps/api-python/guardrails.py, api/index.py)                           *)
(*                                                                         *)
(* The arguments of a tool call are what json.loads returned: a dict, of   *)
(* which the model keeps the keys, whether the summary is longer than the  *)
(* validator admits and whether the contact values are empty; a list of    *)
(* strings; or a value that is no container (null, a number).              *)
(***************************************************************************)

ParamNames == {"email", "phone", "conversation_id", "customer_id", "summary", "other"}

ToolNames == {"get_booking_link", "lookup_customer", "add_note", "delete_customer"}

TOOL_CONSTRAINTS ==
    [ get_booking_link |->
        [allowed_params |-> {}, required_params |-> {}, param_validators |-> {}],
      lookup_customer |->
        [allowed_params |-> {"email", "phone"}, required_params |-> {},
         param_validators |-> {}],
      add_note |->
        [allowed_params |-> {"conversation_id", "customer_id", "summary"},
         required_params |-> {"conversation_id", "customer_id", "summary"},
         param_validators |-> {"summary"}] ]

TOOL_IMPL == {"get_booking_link", "lookup_customer", "add_note"}

ToolArgs ==
    [kind : {"dict"}, keys : SUBSET ParamNames, long_summary : BOOLEAN, blank_contact : BOOLEAN]
        \cup [kind : {"list"}, keys : SUBSET ParamNames, long_summary : {FALSE},
              blank_contact : {FALSE}]
        \cup [kind : {"scalar"}, keys : {{}}, long_summary : {FALSE}, blank_contact : {FALSE}]

\* What validate_tool_call does: it returns (is_valid, error) or raises TypeError.
Validated(is_valid, error) == [raised |-> FALSE, is_valid |-> is_valid, error |-> error]
ValidationRaised == [raised |-> TRUE, is_valid |-> FALSE, error |-> "TypeError"]
NoToolError == "None"

\* validate_tool_call(tool_name, tool_args)
validate_tool_call(tool_name, tool_args) ==
    IF tool_name \notin DOMAIN TOOL_CONSTRAINTS
    THEN Validated(FALSE, "Unknown tool")
    ELSE
    LET constraints == TOOL_CONSTRAINTS[tool_name]
        allowed     == constraints.allowed_params
        required    == constraints.required_params
        validators  == constraints.param_validators
    IN  \* for param in tool_args
        IF allowed # {} /\ tool_args.kind = "scalar" THEN ValidationRaised
        ELSE IF allowed # {} /\ tool_args.keys \ allowed # {}
        THEN Validated(FALSE, "Disallowed parameter")
        \* param not in tool_args
        ELSE IF required # {} /\ tool_args.kind = "scalar" THEN ValidationRaised
        ELSE IF required \ tool_args.keys # {}
        THEN Validated(FALSE, "Missing required parameter")
        \* param in tool_args, validator(tool_args[param])
        ELSE IF validators # {} /\ tool_args.kind = "scalar" THEN ValidationRaised
        ELSE IF validators \cap tool_args.keys # {} /\ tool_args.kind = "list"
        THEN ValidationRaised
        ELSE IF "summary" \in validators \cap tool_args.keys /\ tool_args.long_summary
        THEN Validated(FALSE, "Invalid value")
        ELSE Validated(TRUE, NoToolError)

\* The parameters of the tool implementations (tools.py).
ToolSignature(name) ==
    CASE name = "get_booking_link" -> {}
      [] name = "lookup_customer" -> {"email", "phone"}
      [] name = "add_note" -> {"conversation_id", "customer_id", "summary"}

\* What _run_one_tool does: the dict it returns or the exception it raises,
\* and whether the body of the tool implementation has run.
ToolResult(error, detail, invoked) ==
    [raised |-> FALSE, error |-> error, detail |-> detail, invoked |-> invoked]

\* Variant of _run_one_tool without the try/except around the implementation.
run_one_tool_uncaught(name, args, impl_raises) ==
    LET v == validate_tool_call(name, args) IN
    IF v.raised THEN [raised |-> TRUE, error |-> "TypeError", detail |-> "", invoked |-> FALSE]
    ELSE IF ~v.is_valid THEN ToolResult("invalid_tool_call", v.error, FALSE)
    ELSE IF name \notin TOOL_IMPL THEN ToolResult("unknown_tool", name, FALSE)
    ELSE IF name = "lookup_customer"
    THEN IF args.kind # "dict" THEN ToolResult("tool_execution_failed", "AttributeError", FALSE)
         ELSE IF args.keys \cap {"email", "phone"} = {} \/ args.blank_contact
         THEN ToolResult("provide_email_or_phone", "", FALSE)
         ELSE IF impl_raises
         THEN [raised |-> TRUE, error |-> "Exception", detail |-> "", invoked |-> TRUE]
         ELSE ToolResult("", "", TRUE)
    ELSE IF args.kind # "dict" \/ args.keys # ToolSignature(name)
         THEN ToolResult("tool_execution_failed", "TypeError", FALSE)
         ELSE IF impl_raises
         THEN [raised |-> TRUE, error |-> "Exception", detail |-> "", invoked |-> TRUE]
         ELSE ToolResult("", "", TRUE)

\* _run_one_tool(name, args); impl_raises: the tool implementation raises
run_one_tool(name, args, impl_raises) ==
    LET v == validate_tool_call(name, args) IN
    IF v.raised THEN [raised |-> TRUE, error |-> "TypeError", detail |-> "", invoked |-> FALSE]
    ELSE IF ~v.is_valid THEN ToolResult("invalid_tool_call", v.error, FALSE)
    ELSE IF name \notin TOOL_IMPL THEN ToolResult("unknown_tool", name, FALSE)
    ELSE IF name = "lookup_customer"
    THEN \* args.get("email"), args.get("phone")
         IF args.kind # "dict" THEN ToolResult("tool_execution_failed", "AttributeError", FALSE)
         ELSE IF args.keys \cap {"email", "phone"} = {} \/ args.blank_contact
         THEN ToolResult("provide_email_or_phone", "", FALSE)
         ELSE IF impl_raises THEN ToolResult("tool_execution_failed", "Exception", TRUE)
         ELSE ToolResult("", "", TRUE)
    ELSE \* fn(**args)
         IF args.kind # "dict" \/ args.keys # ToolSignature(name)
         THEN ToolResult("tool_execution_failed", "TypeError", FALSE)
         ELSE IF impl_raises THEN ToolResult("tool_execution_failed", "Exception", TRUE)
         ELSE ToolResult("", "", TRUE)

ToolCalls ==
    { [fn |-> "_run_one_tool", done |-> FALSE, name |-> n, args |-> a,
       impl_raises |-> r, out |-> ToolResult("", "", FALSE)] :
         n \in ToolNames, a \in ToolArgs, r \in BOOLEAN }

RunOneTool ==
    /\ fcall.fn = "_run_one_tool"
    /\ ~fcall.done
    /\ fcall' = [fcall EXCEPT !.done = TRUE,
                    !.out = run_one_tool(fcall.name, fcall.args, fcall.impl_raises)]
    /\ UNCHANGED <<now, breakerVars, rt, abuseVars, concVars>>

InitGuardrails ==
    /\ RestInit
    /\ fcall \in ContentSafetyCalls \cup ToolCalls

NextGuardrails ==
    \/ CheckContentSafety
    \/ RunOneTool

SpecGuardrails == InitGuardrails /\ [][NextGuardrails]_vars

InitInjection ==
    /\ RestInit
    /\ fcall \in DetectionCalls

NextInjection == DetectPromptInjection

SpecInjection == InitInjection /\ [][NextInjection]_vars

(***************************************************************************)
(* Properties of the guardrail functions                                   *)
(***************************************************************************)

SafetyDone == fcall.fn = "check_content_safety" /\ fcall.done

\* The entries of SENSITIVE_TOPICS whose pattern matches the text.
MatchedTopics == {i \in DOMAIN SENSITIVE_TOPICS : \E k \in DOMAIN fcall.text : fcall.text[k] = i}

CriticalMatched == \E i \in MatchedTopics : SENSITIVE_TOPICS[i].severity = "critical"

SeverityRank(i) ==
    CASE SENSITIVE_TOPICS[i].severity = "critical" -> 3
      [] SENSITIVE_TOPICS[i].severity = "high" -> 2
      [] OTHER -> 1

\* C18: check_content_safety returns "block" exactly when a critical topic
\* matched, "caution" exactly when some topic matched and none of them is
\* critical, "safe" exactly when nothing matched; the list it returns holds
\* the topic of every matching entry and no other, and the topic it returns is
\* a matched one of the highest severity among them.
C18_SafetyLevel ==
    SafetyDone =>
        /\ fcall.out[1] = "block" <=> CriticalMatched
        /\ fcall.out[1] = "caution" <=> (MatchedTopics # {} /\ ~CriticalMatched)
        /\ fcall.out[1] = "safe" <=> MatchedTopics = {}
        /\ Range(fcall.out[3]) = {SENSITIVE_TOPICS[i].topic : i \in MatchedTopics}
        /\ Len(fcall.out[3]) = Cardinality(MatchedTopics)
        /\ MatchedTopics = {} => fcall.out[2] = NoTopic
        /\ MatchedTopics # {} =>
              \E i \in MatchedTopics :
                  /\ fcall.out[2] = SENSITIVE_TOPICS[i].topic
                  /\ \A j \in MatchedTopics : SeverityRank(j) <= SeverityRank(i)

\* A text with two topics of high severity, one of medium severity and no
\* critical one has been checked: the level is "caution".
C18_Witness ==
    /\ SafetyDone
    /\ MatchedTopics = {2, 3, 4}
    /\ fcall.out[1] = "caution"
    /\ fcall.out[2] \in {"violence", "illegal_cyber"}

DetectionDone == fcall.fn = "detect_prompt_injection" /\ fcall.done

\* The entries of INJECTION_PATTERNS whose compiled pattern matches the text.
MatchingRules ==
    {i \in DOMAIN INJECTION_PATTERNS : \E k \in DOMAIN fcall.text : pattern_matches(i, fcall.text[k])}

\* C19 as stated: detect_prompt_injection returns found = true exactly when
\* some entry of the catalog matches the text, and then the category of the
\* first matching entry in catalog order.
C19_FirstMatchingRule ==
    DetectionDone =>
        /\ fcall.out[1] <=> MatchingRules # {}
        /\ MatchingRules # {} =>
              fcall.out[2] = INJECTION_PATTERNS[CHOOSE i \in MatchingRules :
                                                   \A j \in MatchingRules : i <= j]

ToolDone == fcall.fn = "_run_one_tool" /\ fcall.done

\* validate_tool_call accepts the call.
ToolCallAccepted ==
    LET v == validate_tool_call(fcall.name, fcall.args) IN ~v.raised /\ v.is_valid

\* C20 as stated: the tool implementation is invoked only for a call that
\* validate_tool_call accepts; for every other call _run_one_tool returns the
\* result {error: invalid_tool_call, detail: reason} and the implementation is
\* not invoked.
C20_OnlyValidatedCallsRun ==
    ToolDone =>
        /\ fcall.out.invoked => ToolCallAccepted
        /\ ~ToolCallAccepted =>
              /\ ~fcall.out.raised
              /\ fcall.out.error = "invalid_tool_call"
              /\ fcall.out.detail \in {"Unknown tool", "Disallowed parameter",
                                       "Missing required parameter", "Invalid value"}
              /\ ~fcall.out.invoked

(***************************************************************************)
(* Concurrent requests at the AbuseDetector                                *)
(* (apps/api-python/guardrails.py, api/index.py)                           *)
(*                                                                         *)
(* The requests are served by tasks of one event loop.  A task gives way   *)
(* to another one only where it awaits: check_and_record and               *)
(* full_safety_check around it are plain functions without an await, so    *)
(* one call of check_and_record is one step.                               *)
(***************************************************************************)

RecordsRead_atArrival(p) == reqs[p].seen

\* The records that the check_and_record call of task p reads and updates:
\* self._user_data as it is when the call runs.
RecordsRead(p) == user_data

\* The concurrent requests carry the same message.
ConcurrentMessages == {m \in Messages : m.head = 1 /\ m.tail = 0}

\* A request arrives at the chat endpoint and waits for its turn.
Arrive(p) ==
    /\ reqs[p].pc = "idle"
    /\ Len(served) + Cardinality({q \in Procs : reqs[q].pc = "arrived"}) < MaxConcurrentCalls
    /\ reqs' = [reqs EXCEPT ![p] = [NoRequest EXCEPT !.pc = "arrived", !.seen = user_data]]
    /\ UNCHANGED <<now, breakerVars, rt, abuseVars, fcall, served, calls>>

\* run_with_tools runs full_safety_check for the request of task p, whose
\* message is read here for the first time; the requests that are waiting
\* meanwhile overlap with this one.
SafetyCheck(p) ==
    /\ reqs[p].pc = "arrived"
    /\ \E u \in Users, m \in ConcurrentMessages, inj \in BOOLEAN :
         LET r == check_and_record(RecordsRead(p), u, m, inj, now) IN
         /\ user_data' = r.ud
         /\ served' = Append(served,
                [ user |-> u, message |-> m, had_injection |-> inj, at |-> now,
                  overlapped |-> reqs[p].overlapped, ret |-> r.ret ])
    /\ reqs' = [q \in Procs |->
                  IF q = p THEN NoRequest
                  ELSE IF reqs[q].pc = "arrived" THEN [reqs[q] EXCEPT !.overlapped = TRUE]
                  ELSE reqs[q]]
    /\ UNCHANGED <<now, breakerVars, rt, adLast, adLog, fcall, calls>>

NextAbuseConcurrent ==
    \/ TickAbuse
    \/ \E p \in Procs : Arrive(p)
    \/ \E p \in Procs : SafetyCheck(p)

SpecAbuseConcurrent == Init /\ [][NextAbuseConcurrent]_vars

\* The calls cs made one after the other on the records ud: the records and
\* the results they give.
RECURSIVE SerialRun(_, _)
SerialRun(ud, cs) ==
    IF cs = <<>> THEN [ud |-> ud, rets |-> <<>>]
    ELSE LET before == SerialRun(ud, Front(cs))
             c      == Last(cs)
             r      == check_and_record(before.ud, c.user, c.message, c.had_injection, c.at)
         IN  [ud |-> r.ud, rets |-> Append(before.rets, r.ret)]

UpstreamOutcomes == {"response", "retryable", "provider_error", "other_exception"}

BreakerRead_beforeSleep(p) == calls[p].seen

\* The breaker fields that the task p reads and updates in an attempt: the
\* fields of openai_breaker as they are when the attempt runs.
BreakerRead(p) == cb

\* Variant of the body that calls the provider whatever the breaker answers.
call_openai_body_unchecked(b, t, outcome) ==
    LET a == allow_request(b, t) IN
    CASE outcome = "response" ->
           [b |-> record_success(a.b), admitted |-> TRUE, report |-> "success",
            ends |-> "response"]
      [] outcome = "retryable" ->
           [b |-> record_failure(a.b, t), admitted |-> TRUE, report |-> "failure",
            ends |-> "retryable"]
      [] outcome = "provider_error" ->
           [b |-> record_failure(a.b, t), admitted |-> TRUE, report |-> "failure",
            ends |-> "openai_error"]
      [] OTHER ->
           [b |-> a.b, admitted |-> TRUE, report |-> "none", ends |-> "other_exception"]

\* One execution of the body of call_openai_with_retry on breaker b at time
\* t: the breaker after it, what is reported to it, and how the body ends.
call_openai_body(b, t, outcome) ==
    LET a == allow_request(b, t) IN
    IF ~a.ret
    THEN [b |-> a.b, admitted |-> FALSE, report |-> "none", ends |-> "service_unavailable"]
    ELSE CASE outcome = "response" ->
                [b |-> record_success(a.b), admitted |-> TRUE, report |-> "success",
                 ends |-> "response"]
           [] outcome = "retryable" ->
                [b |-> record_failure(a.b, t), admitted |-> TRUE, report |-> "failure",
                 ends |-> "retryable"]
           [] outcome = "provider_error" ->
                [b |-> record_failure(a.b, t), admitted |-> TRUE, report |-> "failure",
                 ends |-> "openai_error"]
           [] OTHER ->
                [b |-> a.b, admitted |-> TRUE, report |-> "none", ends |-> "other_exception"]

\* Variant of the retry decision that also retries other provider errors.
retry_again_providerErrors(ends, attempt) ==
    ends \in {"retryable", "openai_error"} /\ attempt < openai_max_attempts

\* The decision of with_retry after an attempt: the exception is caught when
\* it is a RateLimitError or an APIConnectionError, and the call goes on to
\* another attempt unless this one was the last.
retry_again(ends, attempt) ==
    ends = "retryable" /\ attempt < openai_max_attempts

\* What the chat endpoint makes of the end of a call: RetryExhausted becomes
\* APIError 503 in run_with_tools, an APIError raised in the body passes
\* through, any other exception becomes APIError 500 in chat.
surfaced(result) ==
    CASE result \in {"retry_exhausted", "service_unavailable"} ->
           [status_code |-> 503, error_code |-> "service_unavailable"]
      [] result = "openai_error" ->
           [status_code |-> 502, error_code |-> "openai_error"]
      [] result = "other_exception" ->
           [status_code |-> 500, error_code |-> "chat_error"]
      [] OTHER ->
           [status_code |-> 200, error_code |-> "none"]

\* A request reaches call_openai_with_retry.
StartCall(p) ==
    /\ calls[p].pc = "idle"
    /\ calls' = [calls EXCEPT ![p] =
                    [NoUpstreamCall EXCEPT !.pc = "ready", !.attempt = 1, !.seen = cb]]
    /\ UNCHANGED <<now, breakerVars, rt, abuseVars, fcall, reqs, served>>

\* One attempt of the call of task p, up to the sleep of with_retry or to the
\* end of the call.
Attempt(p) ==
    /\ calls[p].pc = "ready"
    /\ cb.failure_count < MaxFailureCount
    /\ \E outcome \in UpstreamOutcomes :
         LET r     == call_openai_body(BreakerRead(p), now, outcome)
             again == retry_again(r.ends, calls[p].attempt)
         IN  /\ cb' = r.b
             /\ cbConsec' = CASE r.report = "failure" -> cbConsec + 1
                              [] r.report = "success" -> 0
                              [] OTHER -> cbConsec
             /\ cbGranted' = IF r.admitted
                             THEN GrantedAfter(cb, allow_request(BreakerRead(p), now).b,
                                               TRUE, cbGranted)
                             ELSE GrantedAfter(cb, r.b, FALSE, cbGranted)
             /\ calls' = [calls EXCEPT ![p] =
                    [ pc       |-> IF again THEN "sleeping" ELSE "idle",
                      attempt  |-> calls[p].attempt,
                      invocations |-> calls[p].invocations + (IF r.admitted THEN 1 ELSE 0),
                      reports  |-> calls[p].reports + (IF r.report = "none" THEN 0 ELSE 1),
                      failures |-> calls[p].failures + (IF r.report = "failure" THEN 1 ELSE 0),
                      seen     |-> r.b,
                      result   |-> IF r.ends = "retryable" /\ ~again
                                   THEN "retry_exhausted" ELSE r.ends ]]
    /\ UNCHANGED <<now, cbLast, rt, abuseVars, fcall, reqs, served>>

\* asyncio.sleep(delay) of with_retry is over: the next attempt is due.
WakeUp(p) ==
    /\ calls[p].pc = "sleeping"
    /\ calls' = [calls EXCEPT ![p].pc = "ready", ![p].attempt = @ + 1]
    /\ UNCHANGED <<now, breakerVars, rt, abuseVars, fcall, reqs, served>>

NextBreakerConcurrent ==
    \/ Tick
    \/ \E p \in Procs : StartCall(p)
    \/ \E p \in Procs : Attempt(p)
    \/ \E p \in Procs : WakeUp(p)

SpecBreakerConcurrent == Init /\ [][NextBreakerConcurrent]_vars

\* C12: no failure report of concurrent requests is lost: while the breaker is
\* CLOSED its failure count is the number of record_failure calls made since
\* the last record_success, and that number is below failure_threshold, so the
\* breaker has left CLOSED once the failure_threshold-th has been recorded.
C12_NoLostReport ==
    /\ cb.state = CLOSED => cb.failure_count = cbConsec /\ cbConsec < failure_threshold
    /\ cbConsec >= failure_threshold => cb.state # CLOSED

\* Two calls in progress at the same time have both reported failures, which
\* together are failure_threshold failures, and the breaker is OPEN.
C12_Witness ==
    /\ cb.state = OPEN
    /\ cbConsec = failure_threshold
    /\ cb.failure_count = failure_threshold
    /\ \A p \in Procs : calls[p].pc = "sleeping" /\ calls[p].failures >= 1
    /\ calls["p1"].failures + calls["p2"].failures = failure_threshold

\* C29 as stated: for every preserve_recent >= 0 the tail that is kept
\* unconditionally is the last min(preserve_recent, n) of the n non-system
\* messages, and the older messages are all the messages before them.
C29_TailIsLastMessages ==
    fcall.fn = "trim_conversation_history" =>
        /\ TrimTail = LastMessages(TrimOthers, fcall.preserve_recent)
        /\ TrimOlder \o LastMessages(TrimOthers, fcall.preserve_recent) = TrimOthers

(***************************************************************************)
(* Invocations and backoff sleeps of with_retry                            *)
(***************************************************************************)

\* C30: a call whose operation first succeeds on attempt k <= max_attempts,
\* every earlier attempt having failed with an eligible error, returns after
\* exactly k invocations and k - 1 backoff sleeps; a call whose attempts all
\* fail sleeps max_attempts - 1 times, never after the final failure; and
\* with jitter disabled the sleep before attempt i + 1 lasts
\* min(base_delay * backoff_factor^(i - 1), max_delay) seconds.
C30_InvocationsAndSleeps ==
    LET os == rt.outcomes
        k  == Len(os)
    IN  /\ Len(rt.delays) = rt.sleeps
        /\ (rt.pc = "done" /\ rt.result.kind = "return") =>
               /\ k \in 1..rt.max_attempts
               /\ os[k].kind = "ok"
               /\ AllEligible(SubSeq(os, 1, k - 1))
               /\ rt.invocations = k
               /\ rt.sleeps = k - 1
        /\ (rt.pc = "done" /\ rt.result.kind = "RetryExhausted" /\ rt.max_attempts >= 1) =>
               /\ rt.invocations = rt.max_attempts
               /\ rt.sleeps = rt.max_attempts - 1
        /\ rt.pc = "sleeping" => rt.sleeps = rt.invocations /\ rt.invocations < rt.max_attempts
        /\ ~rt.jitter =>
               \A i \in 1..Len(rt.delays) :
                   rt.delays[i] = 100 * Min(base_delay * Pow(backoff_factor, i - 1), max_delay)

\* C30 witness: without jitter, the operation succeeded on its fourth attempt
\* after three sleeps, the third of which was capped at max_delay.
C30_Witness ==
    /\ rt.pc = "done"
    /\ rt.result.kind = "return"
    /\ ~rt.jitter
    /\ rt.invocations = 4
    /\ rt.sleeps = 3
    /\ rt.delays[3] = 100 * max_delay
    /\ base_delay * Pow(backoff_factor, 2) > max_delay

(***************************************************************************)
(* Properties of call_openai_with_retry                                    *)
(***************************************************************************)

\* openai_breaker is OPEN and less than recovery_timeout has passed since the
\* last recorded failure.
BreakerBlocks ==
    cb.state = OPEN /\ now - cb.last_failure_time < recovery_timeout

\* The task p runs one attempt in this step.
AttemptStep(p) == calls[p].pc = "ready" /\ calls'[p].pc # "ready"

\* C22: the breaker is asked before every attempt, retries included: an
\* attempt made while the breaker is OPEN with less than recovery_timeout
\* elapsed does not invoke the provider, and an attempt that the breaker
\* rejects ends the call at once with service_unavailable (503), no retry
\* following it.
C22_BreakerCheckedEachAttempt ==
    [][\A p \in Procs :
          AttemptStep(p) =>
              /\ BreakerBlocks => calls'[p].invocations = calls[p].invocations
              /\ ~allow_request(cb, now).ret =>
                     calls'[p].invocations = calls[p].invocations
              /\ calls'[p].invocations = calls[p].invocations =>
                     /\ calls'[p].pc = "idle"
                     /\ calls'[p].result = "service_unavailable"
                     /\ calls'[p].reports = calls[p].reports
              /\ calls[p].invocations = calls[p].attempt - 1]_vars

\* C22 witness: the second attempt of a call, a retry, was rejected by the
\* breaker that had opened during the backoff sleep; the call ended with
\* service_unavailable after its single invocation.
C22_Witness ==
    \E p \in Procs :
        /\ calls[p].pc = "idle"
        /\ calls[p].result = "service_unavailable"
        /\ calls[p].attempt = 2
        /\ calls[p].invocations = 1
        /\ BreakerBlocks

\* C23 as stated: every attempt that the breaker admitted has been followed
\* by exactly one report, record_success or record_failure, whatever the
\* provider call did: between the attempts, a call has reported as often as
\* it has invoked the provider.
C23_EveryAdmittedAttemptReported ==
    \A p \in Procs : calls[p].reports = calls[p].invocations

\* C26: a call whose attempts all fail with a rate-limit or connection error
\* invokes the provider openai_max_attempts times, unless the breaker rejects
\* a retry, and either way surfaces as 503 service_unavailable; a call whose
\* attempt fails with another provider error is not retried, so that one
\* failing from the start has invoked the provider exactly once, records one
\* breaker failure for that attempt and surfaces as 502 openai_error.
C26_RetriedOrSurfaced ==
    \A p \in Procs :
        /\ calls[p].result = "retry_exhausted" =>
               /\ calls[p].pc = "idle"
               /\ calls[p].attempt = openai_max_attempts
               /\ calls[p].invocations = openai_max_attempts
               /\ calls[p].failures = openai_max_attempts
               /\ surfaced(calls[p].result) =
                      [status_code |-> 503, error_code |-> "service_unavailable"]
        /\ calls[p].pc = "sleeping" =>
               /\ calls[p].result = "retryable"
               /\ calls[p].attempt < openai_max_attempts
               /\ calls[p].failures = calls[p].attempt
        /\ calls[p].result = "retryable" => calls[p].pc # "idle"
        /\ calls[p].result = "openai_error" =>
               /\ calls[p].pc = "idle"
               /\ calls[p].invocations = calls[p].attempt
               /\ calls[p].failures = calls[p].attempt
               /\ calls[p].reports = calls[p].attempt
               /\ surfaced(calls[p].result) =
                      [status_code |-> 502, error_code |-> "openai_error"]
        /\ (calls[p].result = "service_unavailable" /\ calls[p].attempt > 1) =>
               /\ calls[p].failures = calls[p].attempt - 1
               /\ surfaced(calls[p].result) =
                      [status_code |-> 503, error_code |-> "service_unavailable"]

\* C26 witness: one call has ended in RetryExhausted after three failed
\* invocations, the other with a provider error on its first invocation.
C26_Witness ==
    /\ calls["p1"].pc = "idle"
    /\ calls["p1"].result = "retry_exhausted"
    /\ calls["p1"].invocations = openai_max_attempts
    /\ calls["p2"].pc = "idle"
    /\ calls["p2"].result = "openai_error"
    /\ calls["p2"].invocations = 1
    /\ calls["p2"].failures = 1

(***************************************************************************)
(* The chat endpoint (api/index.py): request model, run_with_tools, tool   *)
(* dispatch and error responses.                                           *)
(*                                                                         *)
(* A content is a text seen through what each check reads of it: the words *)
(* that detect_prompt_injection scans, the topics that                     *)
(* check_content_safety scans, the characters that sanitize_input works    *)
(* on, and the fingerprint of its first 500 characters (head), which is    *)
(* the same for texts that differ after their 500th character only.        *)
(***************************************************************************)

\* text.count(' ') + text.count('\n')
blank_count(text) == Len(SelectSeq(text, LAMBDA c : c \in {" ", "\n"}))

Content(words, topics, text, head) ==
    [ words |-> words, topics |-> topics, text |-> text, head |-> head,
      chars |-> Len(text), blanks |-> blank_count(text) ]

PlainWord == [rule |-> 0, spelling |-> "lower"]
OverrideWord == [rule |-> 1, spelling |-> "lower"]

PlainContent == Content(<<PlainWord>>, <<0>>, <<"a">>, 1)
InjectionContent == Content(<<OverrideWord>>, <<0>>, <<"a">>, 2)
SelfHarmContent == Content(<<PlainWord>>, <<1>>, <<"a">>, 1)
ViolenceContent == Content(<<PlainWord>>, <<2>>, <<"a">>, 1)
NulContent == Content(<<PlainWord>>, <<0>>, <<NUL>>, 1)
BlankContent == Content(<<>>, <<>>, <<" ">>, 3)

UserContents ==
    {PlainContent, InjectionContent, SelfHarmContent, ViolenceContent, NulContent,
     BlankContent}

NoToolCallId == "None"

ChatMessage(role, content, tool_call_id) ==
    [role |-> role, content |-> content, tool_calls |-> <<>>, tool_call_id |-> tool_call_id]

\* The message lists of the requests sent to /v1/chat.
ChatRequests ==
    { <<ChatMessage("user", c, NoToolCallId)>> : c \in UserContents }
        \cup { <<ChatMessage("tool", PlainContent, NoToolCallId),
                 ChatMessage("user", PlainContent, NoToolCallId)>>,
               <<ChatMessage("tool", NulContent, NoToolCallId)>>,
               <<>> }

\* Message: a role of the Role literal; content_not_empty_for_user rejects a
\* user message whose content is empty once stripped.
Message_accepts(m) ==
    /\ m.role \in {"system", "user", "assistant", "tool"}
    /\ m.role = "user" => strip(m.content.text) # <<>>

\* ChatRequest: messages_not_empty, and every message is a Message.
ChatRequest_accepts(messages) ==
    /\ messages # <<>>
    /\ \A i \in DOMAIN messages : Message_accepts(messages[i])

sanitize_max_length == 32000

\* sanitize_message(message)
sanitize_message(message) ==
    LET text == sanitize_input(message.content.text, sanitize_max_length) IN
    [message EXCEPT !.content.text = text,
                    !.content.chars = Len(text),
                    !.content.blanks = blank_count(text)]

\* sanitize_messages(messages)
sanitize_messages(messages) == [i \in DOMAIN messages |-> sanitize_message(messages[i])]

user_messages(messages) == SelectSeq(messages, LAMBDA m : m.role = "user")

SAFETY_REASON == "Content flagged for safety review"

SafetyVerdict(is_safe, block_reason, messages, ud) ==
    [is_safe |-> is_safe, block_reason |-> block_reason, messages |-> messages, ud |-> ud]

\* Variant of the check in which an injection finding alone refuses.
full_safety_check_injectionRefuses(messages, ud, user_id, t) ==
    IF user_messages(messages) = <<>> THEN SafetyVerdict(TRUE, NoReason, messages, ud)
    ELSE
    LET content      == Last(user_messages(messages)).content
        is_injection == detect_prompt_injection(content.words)[1]
        abuse        == check_and_record(ud, user_id, [head |-> content.head, tail |-> 0],
                                         is_injection, t)
    IN  IF abuse.ret[1] \/ is_injection
        THEN SafetyVerdict(FALSE, abuse.ret[2], messages, abuse.ud)
        ELSE IF check_content_safety(content.topics)[1] = "block"
        THEN SafetyVerdict(FALSE, SAFETY_REASON, messages, abuse.ud)
        ELSE SafetyVerdict(TRUE, NoReason, sanitize_messages(messages), abuse.ud)

\* full_safety_check(messages, user_id) on the records ud of abuse_detector at
\* time t: the tuple returned and the records afterwards.
full_safety_check(messages, ud, user_id, t) ==
    IF user_messages(messages) = <<>> THEN SafetyVerdict(TRUE, NoReason, messages, ud)
    ELSE
    LET content      == Last(user_messages(messages)).content
        is_injection == detect_prompt_injection(content.words)[1]
        abuse        == check_and_record(ud, user_id, [head |-> content.head, tail |-> 0],
                                         is_injection, t)
    IN  IF abuse.ret[1]
        THEN SafetyVerdict(FALSE, abuse.ret[2], messages, abuse.ud)
        ELSE IF check_content_safety(content.topics)[1] = "block"
        THEN SafetyVerdict(FALSE, SAFETY_REASON, messages, abuse.ud)
        ELSE SafetyVerdict(TRUE, NoReason, sanitize_messages(messages), abuse.ud)

\* The first message of every upstream call: the system prompt.
SYSTEM_PROMPT == Content(<<PlainWord>>, <<0>>, <<"a", " ", "a">>, 0)

MAX_CONTEXT_TOKENS == 50000
default_preserve_recent == 4

REFUSAL_REPLY ==
    [ role |-> "assistant",
      content |-> "I'm sorry, but I can't process that request. Please rephrase your question." ]

\* Lines 448-467 of run_with_tools: the safety checks, or the sanitization
\* alone when the guardrails are off, then the system prompt and the trimming.
run_with_tools_begin(messages, ud, user_id, t, guardrails) ==
    LET v == IF guardrails THEN full_safety_check(messages, ud, user_id, t)
             ELSE SafetyVerdict(TRUE, NoReason, sanitize_messages(messages), ud)
    IN  IF ~v.is_safe
        THEN [refused |-> TRUE, base_msgs |-> <<>>, ud |-> v.ud]
        ELSE [refused |-> FALSE,
              base_msgs |-> trim_conversation_history(
                                <<ChatMessage("system", SYSTEM_PROMPT, NoToolCallId)>> \o v.messages,
                                MAX_CONTEXT_TOKENS, TRUE, default_preserve_recent),
              ud |-> v.ud]

\* The tool calls of an upstream response: the call id, the function name,
\* the arguments as a JSON text (whether it parses, and to what), and whether
\* the tool implementation raises when it runs.
EmptyDict == [kind |-> "dict", keys |-> {}, long_summary |-> FALSE, blank_contact |-> FALSE]

ToolCallKinds ==
    { [name |-> "get_booking_link", arguments |-> [valid_json |-> FALSE, value |-> EmptyDict],
       impl_raises |-> FALSE],
      [name |-> "lookup_customer",
       arguments |-> [valid_json |-> TRUE, value |-> [EmptyDict EXCEPT !.keys = {"email"}]],
       impl_raises |-> TRUE],
      [name |-> "add_note",
       arguments |-> [valid_json |-> TRUE,
                      value |-> [kind |-> "scalar", keys |-> {}, long_summary |-> FALSE,
                                 blank_contact |-> FALSE]],
       impl_raises |-> FALSE] }

CallIds == <<"call_1", "call_2", "call_3">>

ToolCallLists ==
    UNION { { [i \in 1..n |-> [id |-> CallIds[i], name |-> ks[i].name,
                               arguments |-> ks[i].arguments,
                               impl_raises |-> ks[i].impl_raises]] :
                ks \in [1..n -> ToolCallKinds] } : n \in 1..MaxToolCalls }

\* json.loads(tc.function.arguments or "{}"), {} when it does not parse
parse_arguments(arguments) ==
    IF arguments.valid_json THEN arguments.value ELSE EmptyDict

\* _assistant_tool_call_dict(msg_obj)
assistant_tool_call_dict(tool_calls) ==
    [ role |-> "assistant",
      tool_calls |-> [i \in DOMAIN tool_calls |->
                         [id |-> tool_calls[i].id, name |-> tool_calls[i].name,
                          arguments |-> tool_calls[i].arguments]] ]

\* The message appended for a tool call tc whose run returned result.
tool_message(tc, result) ==
    [role |-> "tool", tool_call_id |-> tc.id, content |-> result]

\* Variant that puts the tool messages in the reverse order.
msgs_with_tools_reversed(base_msgs, tool_calls, tool_msgs) ==
    base_msgs \o <<assistant_tool_call_dict(tool_calls)>>
        \o [i \in DOMAIN tool_msgs |-> tool_msgs[Len(tool_msgs) + 1 - i]]

\* base_msgs + [assistant_tool] + tool_msgs
msgs_with_tools(base_msgs, tool_calls, tool_msgs) ==
    base_msgs \o <<assistant_tool_call_dict(tool_calls)>> \o tool_msgs

(***************************************************************************)
(* Exceptions and error responses.  RawErrorText stands for str(e), the    *)
(* text of an exception raised by the provider client or by the code.      *)
(***************************************************************************)

RawErrorText == "str(e)"
NoDetail == "None"
NoRequestId == "None"
RequestId == "request-id"

Raised(type, status_code, error_code, message, detail) ==
    [ type |-> type, status_code |-> status_code, error_code |-> error_code,
      message |-> message, detail |-> detail ]

APIError(status_code, error_code, message, detail) ==
    Raised("APIError", status_code, error_code, message, detail)

\* How a call of call_openai_with_retry that does not return ends: the
\* exception that leaves the decorated function.
call_openai_raises(ends) ==
    CASE ends = "service_unavailable" ->
           APIError(503, "service_unavailable",
                    "AI service temporarily unavailable. Please try again in a moment.",
                    NoDetail)
      [] ends = "openai_error" ->
           APIError(502, "openai_error", "Failed to get response from AI", RawErrorText)
      [] ends = "retry_exhausted" ->
           Raised("RetryExhausted", 0, "", "", RawErrorText)
      [] OTHER ->
           Raised("Exception", 0, "", "", RawErrorText)

\* except RetryExhausted in run_with_tools; any other exception passes.
run_with_tools_except(e) ==
    IF e.type = "RetryExhausted"
    THEN APIError(503, "service_unavailable",
                  "AI service is currently overloaded. Please try again in a moment.",
                  e.detail)
    ELSE e

\* except APIError: raise / except Exception in chat
chat_except(e) ==
    IF e.type = "APIError" THEN e
    ELSE APIError(500, "chat_error", "Failed to process your message. Please try again.",
                  e.detail)

\* Variant of error_response that gives the detail whatever DEBUG is.
error_response_alwaysDetail(status_code, error_code, message, detail, request_id, debug) ==
    LET keys == {"error", "message"}
                    \cup (IF detail # NoDetail THEN {"detail"} ELSE {})
                    \cup (IF request_id # NoRequestId THEN {"request_id"} ELSE {})
    IN  [ status_code |-> status_code,
          content |-> [k \in keys |->
                          CASE k = "error" -> error_code
                            [] k = "message" -> message
                            [] k = "detail" -> detail
                            [] OTHER -> request_id] ]

\* error_response(status_code, error_code, message, detail, request_id), with
\* the DEBUG setting of the process
error_response(status_code, error_code, message, detail, request_id, debug) ==
    LET keys == {"error", "message"}
                    \cup (IF detail # NoDetail /\ debug THEN {"detail"} ELSE {})
                    \cup (IF request_id # NoRequestId THEN {"request_id"} ELSE {})
    IN  [ status_code |-> status_code,
          content |-> [k \in keys |->
                          CASE k = "error" -> error_code
                            [] k = "message" -> message
                            [] k = "detail" -> detail
                            [] OTHER -> request_id] ]

\* api_error_handler(request, exc)
api_error_handler(exc, request_id, debug) ==
    error_response(exc.status_code, exc.error_code, exc.message, exc.detail, request_id, debug)

\* general_exception_handler(request, exc)
general_exception_handler(exc, request_id, debug) ==
    error_response(500, "internal_error", "An unexpected error occurred",
                   IF debug THEN exc.detail ELSE NoDetail, request_id, debug)

\* The response of the chat endpoint to an exception e raised in run_with_tools.
chat_error_response(e, request_id, debug) ==
    api_error_handler(chat_except(run_with_tools_except(e)), request_id, debug)

\* msg.model_dump(): the reply of the model
ModelReply == [role |-> "assistant", content |-> "reply of the model"]

\* return {"message": message}
chat_ok_response(message) == [status_code |-> 200, content |-> [message |-> message]]

(***************************************************************************)
(* Requests to /v1/chat, one after the other, by one caller.  DEBUG and    *)
(* ENABLE_GUARDRAILS are settings of the process.  A call of               *)
(* call_openai_with_retry is one step: it returns a response, with or      *)
(* without tool calls, or ends in one of the ways of the retry wrapper.    *)
(***************************************************************************)

NoResponse == [status_code |-> 0, content |-> <<>>]

ChatIdle(debug, guardrails) ==
    [ fn |-> "chat", done |-> FALSE, pc |-> "idle",
      DEBUG |-> debug, ENABLE_GUARDRAILS |-> guardrails,
      served |-> 0, request |-> <<>>, pre |-> AbuseDetectorInit,
      base_msgs |-> <<>>, upstream |-> <<>>,
      tool_calls |-> <<>>, tool_msgs |-> <<>>,
      ends |-> "none", response |-> NoResponse ]

CallFailures == {"service_unavailable", "retry_exhausted", "openai_error", "other_exception"}

InitChat ==
    /\ RestInit
    /\ \E debug \in BOOLEAN, guardrails \in BOOLEAN : fcall = ChatIdle(debug, guardrails)

\* A request is accepted by the request model and chat runs up to the first
\* upstream call, or to the refusal.
ChatReceive ==
    /\ fcall.fn = "chat"
    /\ fcall.pc \in {"idle", "done"}
    /\ fcall.served < MaxRequests
    /\ \E messages \in ChatRequests :
         /\ ChatRequest_accepts(messages)
         /\ LET begin == run_with_tools_begin(messages, user_data, "u1", now,
                                              fcall.ENABLE_GUARDRAILS)
                started == [ChatIdle(fcall.DEBUG, fcall.ENABLE_GUARDRAILS) EXCEPT
                               !.served = fcall.served + 1,
                               !.request = messages,
                               !.pre = user_data]
            IN  /\ user_data' = begin.ud
                /\ fcall' = IF begin.refused
                            THEN [started EXCEPT !.pc = "done", !.done = TRUE,
                                                 !.response = chat_ok_response(REFUSAL_REPLY)]
                            ELSE [started EXCEPT !.pc = "first_call",
                                                 !.base_msgs = begin.base_msgs]
    /\ UNCHANGED <<now, breakerVars, rt, adLast, adLog, concVars>>

\* first_resp = await call_openai_with_retry(base_msgs, use_tools=True)
FirstCall ==
    /\ fcall.fn = "chat"
    /\ fcall.pc = "first_call"
    /\ LET called == [fcall EXCEPT !.upstream =
                         Append(@, [messages |-> fcall.base_msgs, use_tools |-> TRUE])]
       IN  \/ fcall' = [called EXCEPT !.pc = "done", !.done = TRUE, !.ends = "response",
                                      !.response = chat_ok_response(ModelReply)]
           \/ \E tcs \in ToolCallLists :
                fcall' = [called EXCEPT !.pc = "tools", !.ends = "tool_calls",
                                        !.tool_calls = tcs]
           \/ \E ends \in CallFailures :
                fcall' = [called EXCEPT !.pc = "done", !.done = TRUE, !.ends = ends,
                             !.response = chat_error_response(call_openai_raises(ends),
                                                              RequestId, fcall.DEBUG)]
    /\ UNCHANGED <<now, breakerVars, rt, abuseVars, concVars>>

\* One iteration of the loop of _apply_tool_calls: the next tool call runs and
\* its tool message is appended, or the exception of _run_one_tool leaves
\* run_with_tools.
ApplyToolCall ==
    /\ fcall.fn = "chat"
    /\ fcall.pc = "tools"
    /\ Len(fcall.tool_msgs) < Len(fcall.tool_calls)
    /\ LET tc     == fcall.tool_calls[Len(fcall.tool_msgs) + 1]
           result == run_one_tool(tc.name, parse_arguments(tc.arguments), tc.impl_raises)
       IN  fcall' = IF result.raised
                    THEN [fcall EXCEPT !.pc = "done", !.done = TRUE, !.ends = "tool_raised",
                             !.response = chat_error_response(
                                              Raised("Exception", 0, "", "", RawErrorText),
                                              RequestId, fcall.DEBUG)]
                    ELSE [fcall EXCEPT !.tool_msgs = Append(@, tool_message(tc, result))]
    /\ UNCHANGED <<now, breakerVars, rt, abuseVars, concVars>>

\* second_resp = await call_openai_with_retry(msgs_with_tools, use_tools=False)
SecondCall ==
    /\ fcall.fn = "chat"
    /\ fcall.pc = "tools"
    /\ Len(fcall.tool_msgs) = Len(fcall.tool_calls)
    /\ LET called == [fcall EXCEPT !.upstream =
                         Append(@, [messages |-> msgs_with_tools(fcall.base_msgs,
                                                     fcall.tool_calls, fcall.tool_msgs),
                                    use_tools |-> FALSE])]
       IN  \/ fcall' = [called EXCEPT !.pc = "done", !.done = TRUE, !.ends = "response",
                           !.response = chat_ok_response(ModelReply)]
           \/ \E ends \in CallFailures :
                fcall' = [called EXCEPT !.pc = "done", !.done = TRUE, !.ends = ends,
                             !.response = chat_error_response(call_openai_raises(ends),
                                                              RequestId, fcall.DEBUG)]
    /\ UNCHANGED <<now, breakerVars, rt, abuseVars, concVars>>

\* An exception is raised outside the try block of chat, in a middleware or
\* a dependency of the request: general_exception_handler answers.
UnhandledException ==
    /\ fcall.fn = "chat"
    /\ fcall.pc \in {"idle", "done"}
    /\ fcall.served < MaxRequests
    /\ \E request_id \in {RequestId, NoRequestId} :
         fcall' = [ChatIdle(fcall.DEBUG, fcall.ENABLE_GUARDRAILS) EXCEPT
                      !.served = fcall.served + 1, !.pre = user_data,
                      !.pc = "done", !.done = TRUE, !.ends = "unhandled",
                      !.response = general_exception_handler(
                                       Raised("Exception", 0, "", "", RawErrorText),
                                       request_id, fcall.DEBUG)]
    /\ UNCHANGED <<now, breakerVars, rt, abuseVars, concVars>>

NextChat ==
    \/ ChatReceive
    \/ FirstCall
    \/ ApplyToolCall
    \/ SecondCall
    \/ UnhandledException

SpecChat == InitChat /\ [][NextChat]_vars

(***************************************************************************)
(* Properties of the chat endpoint                                         *)
(***************************************************************************)

\* The request being served has entered run_with_tools.
ChatServed == fcall.fn = "chat" /\ fcall.pc # "idle" /\ fcall.ends # "unhandled"

HasUserMessage == user_messages(fcall.request) # <<>>

LatestUserContent == Last(user_messages(fcall.request)).content

\* The abuse check on the latest user message, made on the records as they
\* were when the request arrived, reports abuse.
AbuseReported ==
    /\ HasUserMessage
    /\ check_and_record(fcall.pre, "u1", [head |-> LatestUserContent.head, tail |-> 0],
                        detect_prompt_injection(LatestUserContent.words)[1], now).ret[1]

\* The content-safety level of the latest user message is "block".
BlockLevel ==
    /\ HasUserMessage
    /\ check_content_safety(LatestUserContent.topics)[1] = "block"

\* The request has ended with the refusal reply and no upstream call.
Refused ==
    /\ fcall.done
    /\ fcall.response.status_code = 200
    /\ fcall.response.content.message = REFUSAL_REPLY
    /\ fcall.upstream = <<>>

\* C21: with the guardrails enabled, a request ends with the refusal reply
\* and without any upstream call exactly when the abuse check on its latest
\* user message reports abuse or the content-safety level of that message is
\* "block"; an injection finding below the abuse threshold does not refuse;
\* and the reply of a refused request is one constant message, whatever the
\* reason, the matched pattern and the category.
C21_FailClosed ==
    (ChatServed /\ fcall.ENABLE_GUARDRAILS) =>
        /\ (AbuseReported \/ BlockLevel) <=> Refused
        /\ (AbuseReported \/ BlockLevel) => fcall.pc = "done"
        /\ fcall.upstream = <<>> => (Refused \/ fcall.pc = "first_call")

\* C21 witness: the third request with an injection finding is refused by the
\* abuse check, the two before it having been let through and recorded.
C21_Witness ==
    /\ ChatServed
    /\ fcall.ENABLE_GUARDRAILS
    /\ Refused
    /\ AbuseReported
    /\ ~BlockLevel
    /\ LatestUserContent = InjectionContent
    /\ fcall.pre["u1"].injection_count = 2
    /\ Len(fcall.pre["u1"].messages) = 2

\* The requested tool calls whose implementation runs and raises.
FailingToolCalls ==
    {i \in DOMAIN fcall.tool_calls :
        LET tc == fcall.tool_calls[i] IN
        /\ tc.impl_raises
        /\ validate_tool_call(tc.name, parse_arguments(tc.arguments)) = Validated(TRUE, NoToolError)}

\* C24: a tool implementation that raises does not make the request fail:
\* _run_one_tool returns {error: tool_execution_failed, detail}, the tool
\* message of that call is appended with it, the request never ends on the
\* exception of such a call, and once every requested call has its tool
\* message the second upstream call is issued.
C24_ToolFailureIsAResult ==
    ChatServed =>
        /\ \A i \in FailingToolCalls :
               /\ i <= Len(fcall.tool_msgs) =>
                      /\ fcall.tool_msgs[i].role = "tool"
                      /\ fcall.tool_msgs[i].tool_call_id = fcall.tool_calls[i].id
                      /\ fcall.tool_msgs[i].content =
                             [raised |-> FALSE, error |-> "tool_execution_failed",
                              detail |-> "Exception", invoked |-> TRUE]
               /\ fcall.ends = "tool_raised" => i # Len(fcall.tool_msgs) + 1
        /\ (fcall.pc = "done" /\ fcall.tool_calls # <<>> /\ fcall.ends # "tool_raised") =>
               /\ Len(fcall.tool_msgs) = Len(fcall.tool_calls)
               /\ Len(fcall.upstream) = 2
               /\ fcall.upstream[2].messages =
                      msgs_with_tools(fcall.base_msgs, fcall.tool_calls, fcall.tool_msgs)

\* C24 witness: both requested tool calls raised in their implementation, and
\* the request ended with the reply of the second upstream call.
C24_Witness ==
    /\ ChatServed
    /\ fcall.pc = "done"
    /\ Len(fcall.tool_calls) = 2
    /\ FailingToolCalls = {1, 2}
    /\ Len(fcall.upstream) = 2
    /\ fcall.ends = "response"
    /\ fcall.response.status_code = 200

\* C25: the first upstream call is made with the tools and the trimmed list;
\* a second upstream call is made only when the first response requested tool
\* calls and every one of them has produced its result; it is made with the
\* tools disabled, and its messages are those of the first call, then one
\* assistant message with the requested calls, then exactly one tool message
\* per requested call, in the order of the request, each with the id of its
\* call; when no tool call was requested there is no second upstream call.
C25_SecondCallAfterTools ==
    ChatServed =>
        LET up == fcall.upstream
            n  == Len(fcall.tool_calls)
            b  == Len(fcall.base_msgs)
        IN  /\ Len(up) <= 2
            /\ Len(up) >= 1 => up[1] = [messages |-> fcall.base_msgs, use_tools |-> TRUE]
            /\ n = 0 => Len(up) <= 1
            /\ Len(fcall.tool_msgs) < n => Len(up) <= 1
            /\ Len(up) = 2 =>
                   /\ n >= 1
                   /\ Len(fcall.tool_msgs) = n
                   /\ ~up[2].use_tools
                   /\ Len(up[2].messages) = b + 1 + n
                   /\ SubSeq(up[2].messages, 1, b) = up[1].messages
                   /\ up[2].messages[b + 1].role = "assistant"
                   /\ Len(up[2].messages[b + 1].tool_calls) = n
                   /\ \A i \in 1..n :
                          LET tc == fcall.tool_calls[i]
                              m  == up[2].messages[b + 1 + i]
                          IN  /\ up[2].messages[b + 1].tool_calls[i].id = tc.id
                              /\ up[2].messages[b + 1].tool_calls[i].name = tc.name
                              /\ m.role = "tool"
                              /\ m.tool_call_id = tc.id
                              /\ m.content =
                                     run_one_tool(tc.name, parse_arguments(tc.arguments),
                                                  tc.impl_raises)
                              /\ ~m.content.raised

\* C25 witness: two tool calls with different results were requested and the
\* second upstream call has been made.
C25_Witness ==
    /\ ChatServed
    /\ Len(fcall.upstream) = 2
    /\ Len(fcall.tool_calls) = 2
    /\ fcall.tool_msgs[1].content.error = "tool_execution_failed"
    /\ fcall.tool_msgs[2].content.error = "provide_email_or_phone" \/ fcall.tool_msgs[2].content.error = ""
    /\ fcall.tool_msgs[1].tool_call_id # fcall.tool_msgs[2].tool_call_id

\* C27 as stated: in every message list passed to the upstream model, a tool
\* message carries a tool_call_id and a user message has a content that is
\* not empty.
C27_UpstreamMessagesValid ==
    ChatServed =>
        \A k \in DOMAIN fcall.upstream :
            \A i \in DOMAIN fcall.upstream[k].messages :
                LET m == fcall.upstream[k].messages[i] IN
                /\ m.role = "tool" => m.tool_call_id # NoToolCallId
                /\ m.role = "user" => m.content.text # <<>>

GenericMessages ==
    { "AI service temporarily unavailable. Please try again in a moment.",
      "AI service is currently overloaded. Please try again in a moment.",
      "Failed to get response from AI",
      "Failed to process your message. Please try again.",
      "An unexpected error occurred" }

\* The request has been answered with an error response.
ErrorAnswered == fcall.fn = "chat" /\ fcall.done /\ fcall.response.status_code >= 400

\* C28: with DEBUG off, an error response of the chat endpoint is made of the
\* error code, a generic message and the correlation id of the request, and
\* of nothing else: the text of the exception is in none of its fields;
\* exhausted retries and an open breaker answer 503 service_unavailable, a
\* provider error 502 openai_error, and an unexpected exception always
\* answers with such a response of status 500.
C28_NoInternalDetail ==
    /\ (fcall.fn = "chat" /\ fcall.done) =>
           (fcall.response.status_code >= 400 <=>
                fcall.ends \in CallFailures \cup {"tool_raised", "unhandled"})
    /\ (ErrorAnswered /\ ~fcall.DEBUG) =>
           LET content == fcall.response.content IN
           /\ {"error", "message"} \subseteq DOMAIN content
           /\ DOMAIN content \subseteq {"error", "message", "request_id"}
           /\ \A k \in DOMAIN content : content[k] # RawErrorText
           /\ content["message"] \in GenericMessages
           /\ "request_id" \in DOMAIN content => content["request_id"] = RequestId
           /\ fcall.ends # "unhandled" => "request_id" \in DOMAIN content
           /\ fcall.ends \in {"retry_exhausted", "service_unavailable"} =>
                  fcall.response.status_code = 503 /\ content["error"] = "service_unavailable"
           /\ fcall.ends = "openai_error" =>
                  fcall.response.status_code = 502 /\ content["error"] = "openai_error"
           /\ fcall.ends \in {"other_exception", "tool_raised"} =>
                  fcall.response.status_code = 500 /\ content["error"] = "chat_error"
           /\ fcall.ends = "unhandled" =>
                  fcall.response.status_code = 500 /\ content["error"] = "internal_error"

\* C28 witness: with DEBUG off, a provider error whose text was put in the
\* detail of the APIError has been answered with 502 and no detail.
C28_Witness ==
    /\ ErrorAnswered
    /\ ~fcall.DEBUG
    /\ fcall.ends = "openai_error"
    /\ fcall.response.status_code = 502
    /\ DOMAIN fcall.response.content = {"error", "message", "request_id"}

(***************************************************************************)
(* Counters of the CircuitBreaker                                          *)
(***************************************************************************)

\* C35: in every reachable state the success counter is 0 whenever the
\* breaker is CLOSED or OPEN, the failure count is below failure_threshold
\* whenever it is CLOSED, and the half-open trial counter never exceeds
\* half_open_max_calls.
C35_CounterInvariant ==
    /\ cb.state \in {CLOSED, OPEN} => cb.success_count = 0
    /\ cb.state = CLOSED => cb.failure_count < failure_threshold
    /\ cb.half_open_calls <= half_open_max_calls
    /\ cb.success_count <= half_open_max_calls

\* C35 witness: a failure reported in HALF_OPEN, after a success had been
\* counted and every trial granted, has opened the breaker with the success
\* counter back at 0.
C35_Witness ==
    /\ cbLast.op = "record_failure"
    /\ cbLast.pre.state = HALF_OPEN
    /\ cbLast.pre.success_count > 0
    /\ cbLast.pre.half_open_calls = half_open_max_calls
    /\ cb.state = OPEN
    /\ cb.success_count = 0

(***************************************************************************)
(* The CircuitBreaker with calls in flight                                 *)
(*                                                                         *)
(* The pattern of the class (retry.py:163-170): a caller asks              *)
(* allow_request(), makes its call, and reports record_success() or        *)
(* record_failure() when the call ends.  Calls of several callers overlap, *)
(* so a report can arrive long after the call was admitted.  The bookkeep- *)
(* ing record counts the admitted calls that have not reported yet: the    *)
(* trials of the running half-open episode, and all the others.            *)
(***************************************************************************)

MaxInFlight == 3

NeverOpened == 0 - 1

InFlightIdle ==
    [ fn |-> "in_flight", done |-> FALSE, trials |-> 0, others |-> 0,
      trial_successes |-> 0, opened_at |-> NeverOpened ]

InitInFlight ==
    /\ RestInit
    /\ fcall = InFlightIdle

\* The bookkeeping after the breaker went from state `before` to `after`:
\* when a half-open episode starts or ends, the calls still in flight are no
\* trials of the running episode; the time of entering OPEN is kept.
EpisodeAfter(f, before, after, t) ==
    LET moved == IF before.state # after.state
                 THEN [f EXCEPT !.others = f.others + f.trials, !.trials = 0]
                 ELSE f
        fresh == IF before.state # HALF_OPEN /\ after.state = HALF_OPEN
                 THEN [moved EXCEPT !.trial_successes = 0]
                 ELSE moved
    IN  IF before.state # OPEN /\ after.state = OPEN
        THEN [fresh EXCEPT !.opened_at = t]
        ELSE fresh

\* A caller asks allow_request(); an admitted call is in flight from now on.
AdmitCall ==
    LET r == allow_request(cb, now)
        f == EpisodeAfter(fcall, cb, r.b, now)
    IN  /\ fcall.fn = "in_flight"
        /\ r.ret => fcall.trials + fcall.others < MaxInFlight
        /\ cb' = r.b
        /\ cbLast' = [op |-> "allow_request", ret |-> r.ret, pre |-> cb, at |-> now]
        /\ cbGranted' = GrantedAfter(cb, r.b, r.ret, cbGranted)
        /\ fcall' = IF ~r.ret THEN f
                    ELSE IF r.b.state = HALF_OPEN
                         THEN [f EXCEPT !.trials = f.trials + 1]
                         ELSE [f EXCEPT !.others = f.others + 1]
        /\ UNCHANGED <<now, cbConsec, rt, abuseVars, concVars>>

\* A call in flight ends well and reports record_success().
ReportSuccess ==
    /\ fcall.fn = "in_flight"
    /\ \E trial \in BOOLEAN :
         LET b == record_success(cb)
             f == IF trial
                  THEN [fcall EXCEPT !.trials = fcall.trials - 1,
                                     !.trial_successes = fcall.trial_successes + 1]
                  ELSE [fcall EXCEPT !.others = fcall.others - 1]
         IN  /\ IF trial THEN fcall.trials > 0 ELSE fcall.others > 0
             /\ cb' = b
             /\ fcall' = EpisodeAfter(f, cb, b, now)
    /\ cbLast' = [op |-> "record_success", ret |-> FALSE, pre |-> cb, at |-> now]
    /\ cbConsec' = 0
    /\ UNCHANGED <<now, cbGranted, rt, abuseVars, concVars>>

\* A call in flight fails and reports record_failure().
ReportFailure ==
    /\ fcall.fn = "in_flight"
    /\ cb.failure_count < MaxFailureCount
    /\ \E trial \in BOOLEAN :
         LET b == record_failure(cb, now)
             f == IF trial
                  THEN [fcall EXCEPT !.trials = fcall.trials - 1]
                  ELSE [fcall EXCEPT !.others = fcall.others - 1]
         IN  /\ IF trial THEN fcall.trials > 0 ELSE fcall.others > 0
             /\ cb' = b
             /\ fcall' = EpisodeAfter(f, cb, b, now)
    /\ cbLast' = [op |-> "record_failure", ret |-> FALSE, pre |-> cb, at |-> now]
    /\ cbConsec' = cbConsec + 1
    /\ UNCHANGED <<now, cbGranted, rt, abuseVars, concVars>>

\* The health endpoint reads breaker.state.
ReadStateInFlight ==
    /\ fcall.fn = "in_flight"
    /\ cb' = StateProperty(cb, now)
    /\ cbLast' = [op |-> "state", ret |-> FALSE, pre |-> cb, at |-> now]
    /\ cbGranted' = GrantedAfter(cb, cb', FALSE, cbGranted)
    /\ fcall' = EpisodeAfter(fcall, cb, cb', now)
    /\ UNCHANGED <<now, cbConsec, rt, abuseVars, concVars>>

NextInFlight ==
    \/ Tick
    \/ AdmitCall
    \/ ReportSuccess
    \/ ReportFailure
    \/ ReadStateInFlight

SpecBreakerInFlight == InitInFlight /\ [][NextInFlight]_vars

\* C36: once the breaker has entered OPEN, the first allow_request() made
\* recovery_timeout or more after that transition finds the breaker still
\* stored as OPEN and is admitted as a half-open trial, whatever reports of
\* earlier admitted calls arrived in between.
C36_OpenPeriodBounded ==
    ( /\ cbLast.op = "allow_request"
      /\ cbLast.pre.state = OPEN
      /\ cbLast.at - fcall.opened_at >= recovery_timeout )
    => ( cbLast.ret /\ cb.state = HALF_OPEN )

\* C37: the breaker goes from HALF_OPEN to CLOSED only after
\* half_open_max_calls calls admitted during that half-open episode have
\* reported success, and in HALF_OPEN the success counter never exceeds the
\* trial counter, also when calls admitted earlier report late.
C37_ClosedByTrialsOnly ==
    /\ ( /\ cbLast.op = "record_success"
         /\ cbLast.pre.state = HALF_OPEN
         /\ cb.state = CLOSED )
       => fcall.trial_successes = half_open_max_calls
    /\ cb.state = HALF_OPEN => cb.success_count <= cb.half_open_calls

\* Requests keep arriving and every task whose next step is due takes it.
SpecBreakerConcurrentFair ==
    /\ SpecBreakerConcurrent
    /\ WF_vars(\E p \in Procs : StartCall(p))
    /\ WF_vars(\E p \in Procs : Attempt(p))
    /\ WF_vars(\E p \in Procs : WakeUp(p))

\* C38: with requests continuing to arrive, a breaker that is HALF_OPEN
\* eventually is CLOSED or OPEN, whatever the outcomes of the admitted
\* upstream calls are.
C38_HalfOpenEnds ==
    (cb.state = HALF_OPEN /\ cb.failure_count < MaxFailureCount)
        ~> (cb.state \in {CLOSED, OPEN})

\* C39: for every caller and every fingerprint, the number of recorded
\* entries with that fingerprint that are younger than window_seconds never
\* exceeds duplicate_threshold.
C39_WindowInvariant ==
    \A u \in DOMAIN user_data : \A m \in Messages :
        duplicate_count(user_data[u], msg_hash(m), now) <= duplicate_threshold

C39_Witness ==
    /\ adLast.ret = <<TRUE, DUPLICATE_REASON>>
    /\ adLast.user \in DOMAIN user_data
    /\ duplicate_count(user_data[adLast.user], adLast.fp, now) = duplicate_threshold
    /\ Len(user_data[adLast.user].messages) > duplicate_threshold

\* C40: trimming is idempotent: trimming the returned list again with the
\* same max_tokens, preserve_system and preserve_recent returns it unchanged,
\* on the normal path, when the preserved tail overflows and when the system
\* prompt overflows.
C40_TrimIdempotent ==
    TrimDone =>
        trim_conversation_history(fcall.out, fcall.max_tokens,
                                  fcall.preserve_system, fcall.preserve_recent) = fcall.out

\* The normal path with two older messages kept, one dropped, and a system
\* message moved to the front.
C40_Witness ==
    /\ TrimDone
    /\ fcall.max_tokens - count_messages_tokens(TrimSystem) > 0
    /\ count_messages_tokens(TrimTail) <= fcall.max_tokens - count_messages_tokens(TrimSystem)
    /\ Len(TrimOlder) > 0
    /\ Len(fcall.out) < Len(fcall.messages)
    /\ Len(fcall.out) > Len(TrimSystem) + Len(TrimTail)
    /\ trim_conversation_history(fcall.out, fcall.max_tokens,
                                 fcall.preserve_system, fcall.preserve_recent) = fcall.out

\* The preserved tail alone exceeds the budget.
C40_WitnessTailOverflow ==
    /\ TrimDone
    /\ fcall.max_tokens - count_messages_tokens(TrimSystem) > 0
    /\ count_messages_tokens(TrimTail) > fcall.max_tokens - count_messages_tokens(TrimSystem)
    /\ Len(fcall.out) < Len(fcall.messages)

\* The system messages alone exceed the budget.
C40_WitnessSystemOverflow ==
    /\ TrimDone
    /\ fcall.max_tokens - count_messages_tokens(TrimSystem) <= 0
    /\ TrimSystem # <<>>
    /\ Len(fcall.out) < Len(fcall.messages)

\* C33: every content forwarded upstream has been sanitized, with guardrails
\* on or off: the messages of the first upstream call of a request are the
\* system prompt followed by sanitize_messages of the request, trimmed, also
\* when the conversation has no user message.
C33_ForwardedIsSanitized ==
    (fcall.fn = "chat" /\ fcall.upstream # <<>>) =>
        fcall.upstream[1].messages =
            trim_conversation_history(
                <<ChatMessage("system", SYSTEM_PROMPT, NoToolCallId)>>
                    \o sanitize_messages(fcall.request),
                MAX_CONTEXT_TOKENS, TRUE, default_preserve_recent)

(***************************************************************************)
(* The rate limiter and the middleware pipeline                            *)
(*                                                                         *)
(* RateLimiter.is_allowed reads the clock, takes the lock and runs its     *)
(* body; the body holds no await, so the lock is never held across a       *)
(* suspension and a call is one step of the event loop.  A request passes  *)
(* the middleware classes in the order in which the application stacks     *)
(* them.                                                                   *)
(***************************************************************************)

\* LIMITS of RateLimitMiddleware, scaled: (requests, seconds).
chat_limit == 2
tts_limit == 1
default_limit == 3
limit_window == 2

MaxLimiterCalls == 4
MaxLimiterTime == 3

LIMITS(path) ==
    CASE path = "/v1/chat" -> <<chat_limit, limit_window>>
      [] path = "/v1/tts"  -> <<tts_limit, limit_window>>
      [] OTHER             -> <<default_limit, limit_window>>

SKIP_PATHS == {"/healthz", "/favicon.ico", "/"}

PUBLIC_PATHS == {"/", "/healthz", "/config", "/favicon.ico", "/twilio/sms"}

\* An absent header or attribute.
NoValue == "None"

\* RateLimiter.__init__: no key has a list yet.
RateLimiterInit == [k \in {} |-> <<>>]

\* self._requests[key] of the defaultdict(list)
requests_of(rq, key) == IF key \in DOMAIN rq THEN rq[key] ELSE <<>>

\* self._requests[key] = timestamps
with_requests(rq, key, timestamps) ==
    [k \in DOMAIN rq \cup {key} |-> IF k = key THEN timestamps ELSE rq[k]]

\* min(self._requests[key])
oldest_of(timestamps) ==
    CHOOSE ts \in {timestamps[i] : i \in DOMAIN timestamps} :
        \A i \in DOMAIN timestamps : ts <= timestamps[i]

\* Variant of is_allowed() that denies one request late.
is_allowed_onePast(rq, key, limit, window, t) ==
    LET window_start  == t - window
        cleaned       == SelectSeq(requests_of(rq, key), LAMBDA ts : ts > window_start)
        current_count == Len(cleaned)
        oldest        == IF cleaned # <<>> THEN oldest_of(cleaned) ELSE t
    IN  IF current_count > limit
        THEN [ rq |-> with_requests(rq, key, cleaned), allowed |-> FALSE,
               info |-> [ limit |-> limit, remaining |-> 0,
                          reset |-> oldest + window,
                          retry_after |-> oldest + window - t + 1 ] ]
        ELSE [ rq |-> with_requests(rq, key, Append(cleaned, t)), allowed |-> TRUE,
               info |-> [ limit |-> limit, remaining |-> limit - current_count - 1,
                          reset |-> t + window ] ]

\* await rate_limiter.is_allowed(key, limit, window) at time t: the
\* lists afterwards, the answer and the rate limit info.
is_allowed(rq, key, limit, window, t) ==
    LET window_start  == t - window
        cleaned       == SelectSeq(requests_of(rq, key), LAMBDA ts : ts > window_start)
        current_count == Len(cleaned)
        oldest        == IF cleaned # <<>> THEN oldest_of(cleaned) ELSE t
    IN  IF current_count >= limit
        THEN [ rq |-> with_requests(rq, key, cleaned), allowed |-> FALSE,
               info |-> [ limit |-> limit, remaining |-> 0,
                          reset |-> oldest + window,
                          retry_after |-> oldest + window - t + 1 ] ]
        ELSE [ rq |-> with_requests(rq, key, Append(cleaned, t)), allowed |-> TRUE,
               info |-> [ limit |-> limit, remaining |-> limit - current_count - 1,
                          reset |-> t + window ] ]

\* The requests: the path, the address of the peer, the X-Forwarded-For
\* header, the X-Session-Token header and the Authorization header.
HttpRequest(path, host, forwarded, session_token, authorization) ==
    [ path |-> path, client_host |-> host, forwarded |-> forwarded,
      session_token |-> session_token, authorization |-> authorization ]

\* Tokens of sessions that session_auth holds, with their users.
Sessions == [t \in {"token-u1"} |-> [user_id |-> "u1"]]

\* request.headers.get("Authorization", "")
NoAuthorization == [prefix |-> "", key8 |-> "", length |-> 0]

LongApiKey == [prefix |-> "Bearer mda_", key8 |-> "mda_0123", length |-> 37]
ShortApiKey == [prefix |-> "Bearer mda_", key8 |-> "mda_0123", length |-> 12]

HttpRequests ==
    { HttpRequest("/healthz", "10.0.0.1", NoValue, NoValue, NoAuthorization),
      HttpRequest("/v1/chat", "10.0.0.1", NoValue, NoValue, NoAuthorization),
      HttpRequest("/v1/chat", "10.0.0.1", NoValue, "token-u1", NoAuthorization),
      HttpRequest("/v1/chat", "10.0.0.1", "10.0.0.2", "token-u1", NoAuthorization),
      HttpRequest("/v1/chat", "10.0.0.1", NoValue, NoValue, LongApiKey),
      HttpRequest("/v1/chat", "10.0.0.1", NoValue, "token-unknown", ShortApiKey) }

\* _get_client_ip(request): the first address of X-Forwarded-For, else the peer.
get_client_ip(request) ==
    IF request.forwarded # NoValue THEN request.forwarded ELSE request.client_host

\* session_auth.validate_session(token)["user_id"] for a session that is held
\* and has not expired, None otherwise.
session_user(token) ==
    IF token \in DOMAIN Sessions THEN Sessions[token].user_id ELSE NoValue

\* The user that AuthMiddleware.dispatch stores in request.state.user_id.
authenticate(request) ==
    LET by_session == IF request.session_token # NoValue
                      THEN session_user(request.session_token)
                      ELSE NoValue
    IN  IF by_session # NoValue THEN by_session
        ELSE IF request.authorization.prefix = "Bearer mda_"
                /\ request.authorization.length - 7 > 20
             THEN "api_user_" \o request.authorization.key8
             ELSE NoValue

\* key = f"{user_id or client_ip}:{path}"
rate_limit_key(user_id, client_ip, path) ==
    <<IF user_id # NoValue THEN user_id ELSE client_ip, path>>

\* app.add_middleware(cls): Starlette puts the class in front of the ones
\* added before, so the class added last is the outermost.
add_middleware(user_middleware, cls) == <<cls>> \o user_middleware

\* The calls of index.py:578-596, in their order.
user_middleware ==
    add_middleware(
      add_middleware(
        add_middleware(
          add_middleware(
            add_middleware(<<>>, "SecurityHeadersMiddleware"),
            "CORSMiddleware"),
          "AuthMiddleware"),
        "RateLimitMiddleware"),
      "RequestTracingMiddleware")

\* What a request carries down the stack: request.state.user_id (absent at
\* first), the lists of the limiter, and what the rate limit step did.
NewContext(rq, require_auth) ==
    [ user_id |-> NoValue, rq |-> rq, require_auth |-> require_auth,
      limited |-> FALSE, key |-> <<NoValue, NoValue>>, allowed |-> FALSE,
      info |-> [limit |-> 0, remaining |-> 0, reset |-> 0] ]

\* RateLimitMiddleware.dispatch up to call_next.
rate_limit_dispatch(request, ctx, t) ==
    IF request.path \in SKIP_PATHS
    THEN [passes |-> TRUE, ctx |-> ctx]
    ELSE LET key == rate_limit_key(ctx.user_id, get_client_ip(request), request.path)
             r   == is_allowed(ctx.rq, key, LIMITS(request.path)[1], LIMITS(request.path)[2], t)
         IN  [ passes |-> r.allowed,
               ctx |-> [ctx EXCEPT !.rq = r.rq, !.limited = TRUE, !.key = key,
                                   !.allowed = r.allowed, !.info = r.info] ]

\* AuthMiddleware.dispatch up to call_next.
auth_dispatch(request, ctx) ==
    IF request.path \in PUBLIC_PATHS
    THEN [passes |-> TRUE, ctx |-> ctx]
    ELSE LET user_id == authenticate(request)
         IN  [ passes |-> ~(ctx.require_auth /\ user_id = NoValue),
               ctx |-> [ctx EXCEPT !.user_id = user_id] ]

\* The request goes down the stack; a middleware that does not pass it on
\* answers itself, and the endpoint answers at the bottom.
RECURSIVE call_next(_, _, _, _)
call_next(stack, request, ctx, t) ==
    IF stack = <<>> THEN [status_code |-> 200, ctx |-> ctx]
    ELSE CASE Head(stack) = "RateLimitMiddleware" ->
                LET r == rate_limit_dispatch(request, ctx, t)
                IN  IF r.passes THEN call_next(Tail(stack), request, r.ctx, t)
                    ELSE [status_code |-> 429, ctx |-> r.ctx]
           [] Head(stack) = "AuthMiddleware" ->
                LET r == auth_dispatch(request, ctx)
                IN  IF r.passes THEN call_next(Tail(stack), request, r.ctx, t)
                    ELSE [status_code |-> 401, ctx |-> r.ctx]
           [] OTHER -> call_next(Tail(stack), request, ctx, t)

NoHttpRequest == HttpRequest(NoValue, NoValue, NoValue, NoValue, NoAuthorization)

RateLimitIdle(require_auth) ==
    [ fn |-> "rate_limit", done |-> FALSE, require_auth |-> require_auth,
      served |-> 0, requests |-> RateLimiterInit, allowed_log |-> <<>>,
      request |-> NoHttpRequest, at |-> 0, pre |-> RateLimiterInit,
      status_code |-> 0, ctx |-> NewContext(RateLimiterInit, require_auth) ]

InitRateLimit ==
    /\ RestInit
    /\ \E require_auth \in BOOLEAN : fcall = RateLimitIdle(require_auth)

\* One request is served by the application.
HandleRequest ==
    /\ fcall.fn = "rate_limit"
    /\ fcall.served < MaxLimiterCalls
    /\ \E request \in HttpRequests :
         LET r == call_next(user_middleware, request,
                            NewContext(fcall.requests, fcall.require_auth), now)
         IN  fcall' = [fcall EXCEPT
                 !.served = @ + 1,
                 !.done = TRUE,
                 !.requests = r.ctx.rq,
                 !.allowed_log = IF r.ctx.limited /\ r.ctx.allowed
                                 THEN Append(@, [key |-> r.ctx.key, at |-> now])
                                 ELSE @,
                 !.request = request,
                 !.at = now,
                 !.pre = fcall.requests,
                 !.status_code = r.status_code,
                 !.ctx = r.ctx ]
    /\ UNCHANGED <<now, breakerVars, rt, abuseVars, concVars>>

\* The clock advances between the requests.
TickLimiter ==
    /\ fcall.fn = "rate_limit"
    /\ now < MaxLimiterTime
    /\ now' = now + 1
    /\ UNCHANGED <<breakerVars, rt, abuseVars, extraVars>>

NextRateLimit ==
    \/ TickLimiter
    \/ HandleRequest

SpecRateLimit == InitRateLimit /\ [][NextRateLimit]_vars

\* The limit and the window of a key.
LimitOf(key) == LIMITS(key[2])[1]
WindowOf(key) == LIMITS(key[2])[2]

\* The allowed calls of a key in the window that ends with the allowed call i.
AllowedInWindow(log, i) ==
    { j \in DOMAIN log : /\ log[j].key = log[i].key
                         /\ log[j].at <= log[i].at
                         /\ log[j].at > log[i].at - WindowOf(log[i].key) }

\* The cleaned list of a key at time t.
InWindow(rq, key, t) ==
    SelectSeq(requests_of(rq, key), LAMBDA ts : t - ts < WindowOf(key))

\* C31: for every key, at most `limit` calls are allowed within any window
\* of window_seconds (a call counts against those less than window_seconds
\* before it); a denied call is not recorded and consumes no quota; an
\* allowed call is recorded once and reports remaining = limit - (requests
\* already in the window) - 1.
C31_LimitPerWindow ==
    fcall.fn = "rate_limit" =>
        /\ \A i \in DOMAIN fcall.allowed_log :
             Cardinality(AllowedInWindow(fcall.allowed_log, i))
                 <= LimitOf(fcall.allowed_log[i].key)
        /\ (fcall.done /\ fcall.ctx.limited) =>
             LET key   == fcall.ctx.key
                 count == Len(InWindow(fcall.pre, key, fcall.at))
             IN  /\ fcall.ctx.allowed <=> count < LimitOf(key)
                 /\ ~fcall.ctx.allowed =>
                        /\ fcall.requests[key] = InWindow(fcall.pre, key, fcall.at)
                        /\ fcall.status_code = 429
                 /\ fcall.ctx.allowed =>
                        /\ fcall.requests[key] = Append(InWindow(fcall.pre, key, fcall.at), fcall.at)
                        /\ fcall.ctx.info.remaining = LimitOf(key) - count - 1
                 /\ \A k \in DOMAIN fcall.pre \ {key} : fcall.requests[k] = fcall.pre[k]

\* A request is denied with a full window, after an earlier request of the
\* same key has left the window.
C31_Witness ==
    /\ fcall.fn = "rate_limit"
    /\ fcall.done
    /\ fcall.ctx.limited
    /\ ~fcall.ctx.allowed
    /\ Len(fcall.requests[fcall.ctx.key]) = LimitOf(fcall.ctx.key)
    /\ Len(requests_of(fcall.pre, fcall.ctx.key)) > LimitOf(fcall.ctx.key) - 1
    /\ Cardinality({i \in DOMAIN fcall.allowed_log :
                        fcall.allowed_log[i].key = fcall.ctx.key}) > LimitOf(fcall.ctx.key)

\* C32: a request that AuthMiddleware authenticates as user u is counted by
\* RateLimitMiddleware under the key of u and its path, not under the client
\* address.
C32_AuthenticatedKeyIsUser ==
    ( /\ fcall.fn = "rate_limit"
      /\ fcall.done
      /\ fcall.ctx.limited
      /\ authenticate(fcall.request) # NoValue )
    => fcall.ctx.key = <<authenticate(fcall.request), fcall.request.path>>

(***************************************************************************)
(* The ConversationBuffer                                                  *)
(*                                                                         *)
(* The buffer is its list of messages and its running token count.  The    *)
(* bookkeeping field `added` lists the messages added since the buffer was *)
(* created or cleared; a message carries its position in that list.        *)
(***************************************************************************)

MaxBufferMessages == 3
MaxBufferTokens == 20
MaxBufferAdds == 5
MaxAddMany == 2

\* ConversationBuffer(max_messages, max_tokens)
ConversationBufferInit(max_messages, max_tokens) ==
    [ max_messages |-> max_messages, max_tokens |-> max_tokens,
      _messages |-> <<>>, _token_count |-> 0 ]

\* removed = self._messages.pop(0); self._token_count -= count_message_tokens(removed)
pop_oldest(buf) ==
    [buf EXCEPT !._messages = Tail(@),
                !._token_count = @ - count_message_tokens(Head(buf._messages))]

\* while len(self._messages) > self.max_messages: ...
RECURSIVE trim_by_count(_)
trim_by_count(buf) ==
    IF Len(buf._messages) > buf.max_messages THEN trim_by_count(pop_oldest(buf)) ELSE buf

\* while self._token_count > self.max_tokens and len(self._messages) > 1: ...
RECURSIVE trim_by_tokens(_)
trim_by_tokens(buf) ==
    IF buf._token_count > buf.max_tokens /\ Len(buf._messages) > 1
    THEN trim_by_tokens(pop_oldest(buf)) ELSE buf

\* _trim_if_needed()
trim_if_needed(buf) == trim_by_tokens(trim_by_count(buf))

\* Variant of add() that takes the token count from the content alone.
buffer_add_contentOnly(buf, message) ==
    trim_if_needed([buf EXCEPT !._messages = Append(@, message),
                               !._token_count = @ + 4 + estimate_tokens(message.content)])

\* add(message)
buffer_add(buf, message) ==
    trim_if_needed([buf EXCEPT !._messages = Append(@, message),
                               !._token_count = @ + count_message_tokens(message)])

\* add_many(messages)
RECURSIVE buffer_add_many(_, _)
buffer_add_many(buf, messages) ==
    IF messages = <<>> THEN buf
    ELSE buffer_add_many(buffer_add(buf, Head(messages)), Tail(messages))

\* clear()
buffer_clear(buf) == [buf EXCEPT !._messages = <<>>, !._token_count = 0]

\* The messages offered to the buffer: 5, 16 and 10 tokens.
BufferKinds ==
    { [role |-> "user", content |-> Text(4, 0), tool_calls |-> <<>>],
      [role |-> "system", content |-> Text(40, 8), tool_calls |-> <<>>],
      [role |-> "assistant", content |-> Text(0, 0),
       tool_calls |-> <<[name |-> Text(8, 0), arguments |-> Text(16, 0)]>>] }

BufferKindLists == UNION { [1..n -> BufferKinds] : n \in 0..MaxAddMany }

\* The k-th message added since the last clear.
Placed(kind, k) ==
    [pos |-> k, role |-> kind.role, content |-> kind.content, tool_calls |-> kind.tool_calls]

PlacedList(kinds, first) == [i \in 1..Len(kinds) |-> Placed(kinds[i], first + i - 1)]

InitBuffer ==
    /\ RestInit
    /\ \E max_messages \in 0..MaxBufferMessages, max_tokens \in 0..MaxBufferTokens :
         fcall = [ fn |-> "conversation_buffer", done |-> FALSE, op |-> "init",
                   buf |-> ConversationBufferInit(max_messages, max_tokens),
                   added |-> <<>> ]

BufferAdd ==
    /\ fcall.fn = "conversation_buffer"
    /\ Len(fcall.added) < MaxBufferAdds
    /\ \E kind \in BufferKinds :
         LET message == Placed(kind, Len(fcall.added) + 1)
         IN  fcall' = [fcall EXCEPT !.done = TRUE, !.op = "add",
                                    !.buf = buffer_add(@, message),
                                    !.added = Append(@, message)]
    /\ UNCHANGED <<now, breakerVars, rt, abuseVars, concVars>>

BufferAddMany ==
    /\ fcall.fn = "conversation_buffer"
    /\ \E kinds \in BufferKindLists :
         LET messages == PlacedList(kinds, Len(fcall.added) + 1)
         IN  /\ Len(fcall.added) + Len(kinds) <= MaxBufferAdds
             /\ fcall' = [fcall EXCEPT !.done = TRUE, !.op = "add_many",
                                       !.buf = buffer_add_many(@, messages),
                                       !.added = @ \o messages]
    /\ UNCHANGED <<now, breakerVars, rt, abuseVars, concVars>>

BufferClear ==
    /\ fcall.fn = "conversation_buffer"
    /\ fcall' = [fcall EXCEPT !.done = TRUE, !.op = "clear",
                              !.buf = buffer_clear(@), !.added = <<>>]
    /\ UNCHANGED <<now, breakerVars, rt, abuseVars, concVars>>

NextBuffer ==
    \/ BufferAdd
    \/ BufferAddMany
    \/ BufferClear

SpecBuffer == InitBuffer /\ [][NextBuffer]_vars

\* C34: after any sequence of add, add_many and clear the buffer holds a
\* contiguous suffix of the messages added since the last clear,
\* message_count is at most max_messages, token_count is the sum of
\* count_message_tokens over the held messages, and token_count is at most
\* max_tokens unless at most one message is held.
C34_BufferInvariant ==
    fcall.fn = "conversation_buffer" =>
        LET buf  == fcall.buf
            held == Len(buf._messages)
            all  == Len(fcall.added)
        IN  /\ held <= all
            /\ buf._messages = SubSeq(fcall.added, all - held + 1, all)
            /\ held <= buf.max_messages
            /\ buf._token_count = sum_message_tokens(buf._messages)
            /\ held > 1 => buf._token_count <= buf.max_tokens

\* Messages were evicted for the token limit, and the message that is left
\* alone exceeds it.
C34_Witness ==
    /\ fcall.fn = "conversation_buffer"
    /\ fcall.op = "add_many"
    /\ Len(fcall.added) > 2
    /\ Len(fcall.buf._messages) = 1
    /\ fcall.buf.max_messages > 1
    /\ fcall.buf._token_count > fcall.buf.max_tokens

====
